---- MODULE Spec2Model ----
(***************************************************************************)
(* A model of the asn1 library (BER codec, typed value tree, schema-driven *)
(* marshaler).  The library keeps no state between calls, so the state of  *)
(* the model is one call chain at a time: the input handed to the library, *)
(* and what each call of the chain returned.                               *)
(*                                                                         *)
(* Octet strings are sequences over 0..255.  Go's bit operations on octets *)
(* are written arithmetically: b & 0x80 # 0 is b >= 128, b & 0x7F is       *)
(* b % 128, b >> 6 is b \div 64, and so on.  Go's int is 64 bits wide on   *)
(* the supported builds; every quantity of the model stays below 2^31.     *)
(***************************************************************************)
EXTENDS Integers, Sequences, FiniteSets, TLC

VARIABLES
    pc,        \* position in the call chain of the current scenario
    data,      \* codec chain: the octets handed to DecodeTLV
    decoded,   \* codec chain: what DecodeTLV returned
    reencoded, \* codec chain: what ASN1Value.Encode returned for the decoded node
    nesting,   \* nesting chain: how many SEQUENCEs are wrapped around the input
    depth,     \* nesting chain: how many calls of convertToHighLevelObject are open
    encTag,    \* encoder chain: the tag handed to EncodeTLV
    encLen,    \* encoder chain: len(value) of the value handed to EncodeTLV
    encOut,    \* encoder chain: what EncodeTLV returned
    num,       \* integer chain: the integer n
    intEnc,    \* integer chain: ASN1Integer.Encode of NewInteger(n)
    enumEnc,   \* integer chain: ASN1Enumerated.Encode of NewEnumerated(n)
    intDec,    \* integer chain: DecodeInteger of intEnc
    schema,    \* marshal chain: the record type (its fields and descriptors)
    record,    \* marshal chain: the host record handed to Marshal
    wire,      \* marshal chain: what Marshal returned
    target,    \* marshal chain: what Unmarshal left in a fresh record
    structElements,  \* field loop of unmarshalStruct: elements
    structField,     \* field loop of unmarshalStruct: the field in turn, i + 1
    structCursor,    \* field loop of unmarshalStruct: elementIndex
    choice,    \* choice chain: the ASN1Choice, its value and choiceID
    choiceOut, \* choice chain: what Encode and Tag of the ASN1Choice returned
    node,      \* node chain: the value node the caller has built
    buffer,    \* node chain: a byte slice or element list in the caller's hands
    calls      \* concurrent chain: the calls in flight, each with its position

vars == <<pc, data, decoded, reencoded, nesting, depth, encTag, encLen, encOut,
          num, intEnc, enumEnc, intDec, schema, record, wire, target,
          structElements, structField, structCursor, choice, choiceOut,
          node, buffer, calls>>

codecVars == <<data, decoded, reencoded, nesting, depth>>
encoderVars == <<encTag, encLen, encOut>>
integerVars == <<num, intEnc, enumEnc, intDec>>
loopVars == <<structElements, structField, structCursor>>
marshalVars == <<schema, record, wire, target, loopVars>>
choiceVars == <<choice, choiceOut>>
nodeVars == <<node, buffer, calls>>

\* The value of a variable that the current chain has not set.
None == [none |-> TRUE]

-----------------------------------------------------------------------------
(* Universal tag numbers.                                                  *)

TagBoolean == 1
TagInteger == 2
TagBitString == 3
TagOctetString == 4
TagNull == 5
TagOID == 6
TagEnumerated == 10
TagUTF8String == 12
TagSequence == 16
TagSet == 17
TagPrintableString == 19
TagIA5String == 22
TagUTCTime == 23
TagGeneralizedTime == 24

ClassUniversal == 0
ClassContext == 2

NewTag(class, constructed, number) ==
    [Class |-> class, Constructed |-> constructed, Number |-> number]

NewUniversalTag(number, constructed) ==
    [Class |-> ClassUniversal, Constructed |-> constructed, Number |-> number]

NewContextSpecificTag(number, constructed) ==
    [Class |-> ClassContext, Constructed |-> constructed, Number |-> number]

-----------------------------------------------------------------------------
(* Octet helpers.                                                          *)

RECURSIVE BigEndian(_, _)
\* The digits of n > 0 in the given base, most significant first, as the
\* prepend loops of EncodeTag and EncodeLength build them; <<>> for 0.
BigEndian(n, base) ==
    IF n <= 0 THEN <<>> ELSE Append(BigEndian(n \div base, base), n % base)

RECURSIVE Power(_, _)
Power(b, e) == IF e = 0 THEN 1 ELSE b * Power(b, e - 1)

\* data[from:] of Go, for a 0-based offset.
Drop(s, from) == SubSeq(s, from + 1, Len(s))

\* data[from:to] of Go.
Slice(s, from, to) == SubSeq(s, from + 1, to)

-----------------------------------------------------------------------------
(* TLV encoding.  Results are [err, bytes].                                *)

Fail == [err |-> TRUE, bytes |-> <<>>]

Ok(bytes) == [err |-> FALSE, bytes |-> bytes]

EncodeTagFirstOctet(tag, low) ==
    (tag.Class * 64) + (IF tag.Constructed THEN 32 ELSE 0) + low

\* The base-128 octets of a tag number above 30, the continuation bit set
\* on every octet but the last.
EncodeTagNumberOctets(number) ==
    LET numberBytes == IF number = 0 THEN <<0>> ELSE BigEndian(number, 128)
    IN  [i \in 1..Len(numberBytes) |->
            IF i < Len(numberBytes) THEN numberBytes[i] + 128 ELSE numberBytes[i]]

EncodeTag(tag) ==
    IF tag.Number < 0 THEN Fail
    ELSE IF tag.Number <= 30 THEN Ok(<<EncodeTagFirstOctet(tag, tag.Number)>>)
    ELSE Ok(<<EncodeTagFirstOctet(tag, 31)>> \o EncodeTagNumberOctets(tag.Number))

\* EncodeLength with the short form taken one length too far.
EncodeLengthShortTooFar(length) ==
    IF length < 0 THEN Fail
    ELSE IF length <= 128 THEN Ok(<<length>>)
    ELSE LET lengthBytes == BigEndian(length, 256)
         IN  Ok(<<128 + Len(lengthBytes)>> \o lengthBytes)

EncodeLength(length) ==
    IF length < 0 THEN Fail
    ELSE IF length < 128 THEN Ok(<<length>>)
    ELSE LET lengthBytes == BigEndian(length, 256)
         IN  Ok(<<128 + Len(lengthBytes)>> \o lengthBytes)

EncodeTLV(tag, value) ==
    LET tagBytes == EncodeTag(tag)
        lengthBytes == EncodeLength(Len(value))
    IN  IF tagBytes.err THEN Fail
        ELSE IF lengthBytes.err THEN Fail
        ELSE Ok(tagBytes.bytes \o lengthBytes.bytes \o value)

-----------------------------------------------------------------------------
(* TLV decoding.                                                           *)

NoTag == NewTag(0, FALSE, 0)

TagFail == [err |-> TRUE, tag |-> NoTag, n |-> 0]

\* (1<<(32-7))-1, the largest tag number DecodeTag still shifts.
TagNumberLimit == 33554431

RECURSIVE DecodeTagLoop(_, _, _)
\* The for loop of DecodeTag: offset is the 0-based index of the next octet.
\* Returns [err, number, n].
DecodeTagLoop(d, offset, tagNumber) ==
    IF offset >= Len(d) THEN [err |-> TRUE, number |-> 0, n |-> 0]
    ELSE LET b == d[offset + 1]
         IN  IF tagNumber > TagNumberLimit
             THEN [err |-> TRUE, number |-> 0, n |-> 0]
             ELSE LET next == (tagNumber * 128) + (b % 128)
                  IN  IF b < 128
                      THEN [err |-> FALSE, number |-> next, n |-> offset + 1]
                      ELSE DecodeTagLoop(d, offset + 1, next)

DecodeTag(d) ==
    IF Len(d) = 0 THEN TagFail
    ELSE LET firstByte == d[1]
             class == firstByte \div 64
             constructed == ((firstByte \div 32) % 2) = 1
             tagNumber == firstByte % 32
         IN  IF tagNumber # 31
             THEN [err |-> FALSE, tag |-> NewTag(class, constructed, tagNumber), n |-> 1]
             ELSE IF Len(d) < 2 THEN TagFail
             ELSE LET r == DecodeTagLoop(d, 1, 0)
                  IN  IF r.err THEN TagFail
                      ELSE [err |-> FALSE,
                            tag |-> NewTag(class, constructed, r.number),
                            n |-> r.n]

LengthFail == [err |-> TRUE, length |-> 0, n |-> 0]

\* The largest number of length octets DecodeLength accepts in the long form.
MaxLengthOctets == 4

RECURSIVE DecodeLengthLoop(_, _, _, _)
\* The for loop of DecodeLength over data[1..numLengthBytes].
DecodeLengthLoop(d, i, numLengthBytes, length) ==
    IF i > numLengthBytes THEN length
    ELSE DecodeLengthLoop(d, i + 1, numLengthBytes, (length * 256) + d[i + 1])

\* DecodeLength without the rejection of the indefinite form.
DecodeLengthIndefiniteAccepted(d) ==
    IF Len(d) = 0 THEN LengthFail
    ELSE LET firstByte == d[1]
             numLengthBytes == firstByte % 128
         IN  IF firstByte < 128 THEN [err |-> FALSE, length |-> firstByte, n |-> 1]
             ELSE IF numLengthBytes > MaxLengthOctets THEN LengthFail
             ELSE IF Len(d) < 1 + numLengthBytes THEN LengthFail
             ELSE [err |-> FALSE,
                   length |-> DecodeLengthLoop(d, 1, numLengthBytes, 0),
                   n |-> 1 + numLengthBytes]

DecodeLength(d) ==
    IF Len(d) = 0 THEN LengthFail
    ELSE LET firstByte == d[1]
             numLengthBytes == firstByte % 128
         IN  IF firstByte < 128 THEN [err |-> FALSE, length |-> firstByte, n |-> 1]
             ELSE IF numLengthBytes = 0 THEN LengthFail
             ELSE IF numLengthBytes > MaxLengthOctets THEN LengthFail
             ELSE IF Len(d) < 1 + numLengthBytes THEN LengthFail
             ELSE [err |-> FALSE,
                   length |-> DecodeLengthLoop(d, 1, numLengthBytes, 0),
                   n |-> 1 + numLengthBytes]

\* An ASN1Value: a tag and the raw value octets.
NewASN1Value(tag, value) == [kind |-> "ASN1Value", tag |-> tag, value |-> value]

\* (*ASN1Value).Encode
ValueEncode(v) == EncodeTLV(v.tag, v.value)

TLVFail == [err |-> TRUE, obj |-> NewASN1Value(NoTag, <<>>), consumed |-> 0]

\* DecodeTLV after DecodeLength: the tag t and the length l are decoded.
DecodeTLVValue(d, t, l) ==
    IF l.err THEN TLVFail
    ELSE IF t.n + l.n + l.length > Len(d) THEN TLVFail
    ELSE [err |-> FALSE,
          obj |-> NewASN1Value(t.tag, Slice(d, t.n + l.n, t.n + l.n + l.length)),
          consumed |-> t.n + l.n + l.length]

\* DecodeTLV after DecodeTag.
DecodeTLVLength(d, t) ==
    IF t.err THEN TLVFail
    ELSE IF t.n >= Len(d) THEN TLVFail
    ELSE DecodeTLVValue(d, t, DecodeLength(Drop(d, t.n)))

DecodeTLV(d) == IF Len(d) = 0 THEN TLVFail ELSE DecodeTLVLength(d, DecodeTag(d))

-----------------------------------------------------------------------------
(* INTEGER and ENUMERATED.  A big.Int is modelled by a TLA+ integer.       *)

\* big.Int.Bytes: the absolute value, big-endian, without leading zeros.
BigIntBytes(n) == BigEndian(IF n < 0 THEN -n ELSE n, 256)

RECURSIVE BitLenNat(_)
BitLenNat(a) == IF a = 0 THEN 0 ELSE 1 + BitLenNat(a \div 2)

\* big.Int.BitLen: the length of the absolute value in bits.
BigIntBitLen(n) == BitLenNat(IF n < 0 THEN -n ELSE n)

RECURSIVE BigIntSetBytes(_)
\* big.Int.SetBytes: the octets read as an unsigned big-endian number.
BigIntSetBytes(d) ==
    IF Len(d) = 0 THEN 0
    ELSE (BigIntSetBytes(SubSeq(d, 1, Len(d) - 1)) * 256) + d[Len(d)]

\* The padding loop shared by both encoders: prepend 0xFF up to byteLen.
PadFF(bytes, byteLen) ==
    IF Len(bytes) >= byteLen THEN bytes
    ELSE [i \in 1..(byteLen - Len(bytes)) |-> 255] \o bytes

\* (*ASN1Integer).encodeIntegerValue
IntegerEncodeIntegerValue(n) ==
    IF n = 0 THEN <<0>>
    ELSE IF n > 0
    THEN LET bytes == BigIntBytes(n)
         IN  IF Len(bytes) > 0 /\ bytes[1] >= 128 THEN <<0>> \o bytes ELSE bytes
    ELSE IF n >= -128 THEN <<n + 256>>
    ELSE LET abs == -n
             bl == BigIntBitLen(abs)
             bitLen == IF bl % 8 = 0 THEN bl + 8 ELSE ((bl \div 8) + 1) * 8
             byteLen == bitLen \div 8
             modulus == Power(2, byteLen * 8)
             twosComp == modulus + n
         IN  PadFF(BigIntBytes(twosComp), byteLen)

\* (*ASN1Integer).Encode
IntegerEncode(n) == EncodeTLV(NewUniversalTag(TagInteger, FALSE), IntegerEncodeIntegerValue(n))

\* encodeIntegerValue, the helper of the ENUMERATED type.
encodeIntegerValue(value) ==
    IF value = 0 THEN <<0>>
    ELSE IF value < 0
    THEN LET bitLen == BigIntBitLen(value) + 1
             byteLen == (bitLen + 7) \div 8
             maxVal == Power(2, byteLen * 8)
             result == maxVal + value
         IN  PadFF(BigIntBytes(result), byteLen)
    ELSE LET bytes == BigIntBytes(value)
         IN  IF Len(bytes) > 0 /\ bytes[1] >= 128 THEN <<0>> \o bytes ELSE bytes

\* (*ASN1Enumerated).Encode
EnumeratedEncode(value) ==
    EncodeTLV(NewUniversalTag(TagEnumerated, FALSE), encodeIntegerValue(value))

\* DecodeIntegerValue without the two's complement step.
DecodeIntegerValueUnsigned(d) ==
    IF Len(d) = 0 THEN [err |-> TRUE, value |-> 0]
    ELSE [err |-> FALSE, value |-> BigIntSetBytes(d)]

\* DecodeIntegerValue: [err, value].
DecodeIntegerValue(d) ==
    IF Len(d) = 0 THEN [err |-> TRUE, value |-> 0]
    ELSE LET value == BigIntSetBytes(d)
         IN  IF d[1] >= 128
             THEN [err |-> FALSE, value |-> value - Power(2, Len(d) * 8)]
             ELSE [err |-> FALSE, value |-> value]

IntFail == [err |-> TRUE, value |-> 0, consumed |-> 0]

\* DecodeInteger after DecodeIntegerValue.
DecodeIntegerResult(v, value) ==
    IF value.err THEN IntFail
    ELSE [err |-> FALSE, value |-> value.value, consumed |-> v.consumed]

\* DecodeInteger after DecodeTLV.
DecodeIntegerTLV(v) ==
    IF v.err THEN IntFail
    ELSE IF v.obj.tag.Class # 0 \/ v.obj.tag.Number # TagInteger THEN IntFail
    ELSE DecodeIntegerResult(v, DecodeIntegerValue(v.obj.value))

\* DecodeInteger: [err, value, consumed].
DecodeInteger(d) == DecodeIntegerTLV(DecodeTLV(d))

-----------------------------------------------------------------------------
(* Integers beyond 32 bits.  A machine word is its octets, most            *)
(* significant first, and a big.Int is [neg, abs]: its sign and the octets *)
(* of its absolute value without leading zeros, as big.Int.Bytes returns   *)
(* them.                                                                   *)

RECURSIVE Strip(_)
\* The octets without their leading zeros.
Strip(o) == IF o # <<>> /\ o[1] = 0 THEN Strip(Tail(o)) ELSE o

\* The octets widened to n octets.
ZeroExtend(o, n) == [i \in 1..(n - Len(o)) |-> 0] \o o

RECURSIVE AddOne(_)
\* The number plus one, modulo 256^Len(o).
AddOne(o) ==
    IF o = <<>> THEN <<>>
    ELSE IF o[Len(o)] < 255 THEN SubSeq(o, 1, Len(o) - 1) \o <<o[Len(o)] + 1>>
    ELSE AddOne(SubSeq(o, 1, Len(o) - 1)) \o <<0>>

\* 256^Len(o) minus the number, modulo 256^Len(o).
Negated(o) == AddOne([i \in 1..Len(o) |-> 255 - o[i]])

\* reflect.Value.Uint: the field as a uint64.
Uint(u) == ZeroExtend(u, 8)

\* big.NewInt(int64(x)): the word read as two's complement.
BigOfInt64(word) ==
    IF word[1] >= 128 THEN [neg |-> TRUE, abs |-> Strip(Negated(word))]
    ELSE [neg |-> FALSE, abs |-> Strip(word)]

\* marshalValue of an unsigned integer: NewInteger(int64(v.Uint()))
marshalUint(u) == [kind |-> "Integer", big |-> BigOfInt64(Uint(u))]

\* big.Int.BitLen of the absolute value.
BitLen(abs) == IF abs = <<>> THEN 0 ELSE ((Len(abs) - 1) * 8) + BitLenNat(abs[1])

\* The octet count the negative branch of encodeIntegerValue settles on.
NegativeByteLen(bitLen) ==
    IF bitLen % 8 = 0 THEN (bitLen + 8) \div 8 ELSE (bitLen \div 8) + 1

\* (*ASN1Integer).encodeIntegerValue of a big.Int
EncodeBig(big) ==
    IF big.abs = <<>> THEN <<0>>
    ELSE IF ~big.neg
    THEN IF big.abs[1] >= 128 THEN <<0>> \o big.abs ELSE big.abs
    ELSE IF Len(big.abs) = 1 /\ big.abs[1] <= 128 THEN <<256 - big.abs[1]>>
    ELSE PadFF(Strip(Negated(ZeroExtend(big.abs, NegativeByteLen(BitLen(big.abs))))),
               NegativeByteLen(BitLen(big.abs)))

\* (*ASN1Integer).Encode of a big.Int
BigIntegerEncode(obj) == EncodeTLV(NewUniversalTag(TagInteger, FALSE), EncodeBig(obj.big))

\* DecodeIntegerValue to a big.Int: [err, big].
DecodeBigValue(d) ==
    IF Len(d) = 0 THEN [err |-> TRUE, big |-> [neg |-> FALSE, abs |-> <<>>]]
    ELSE IF d[1] >= 128 THEN [err |-> FALSE, big |-> [neg |-> TRUE, abs |-> Strip(Negated(d))]]
    ELSE [err |-> FALSE, big |-> [neg |-> FALSE, abs |-> Strip(d)]]

\* big.Int.IsInt64 and big.Int.IsUint64 (of a big.Int that is not negative).
IsInt64(big) ==
    \/ Len(big.abs) < 8
    \/ Len(big.abs) = 8 /\ big.abs[1] < 128
    \/ big.neg /\ big.abs = <<128, 0, 0, 0, 0, 0, 0, 0>>

IsUint64(big) == Len(big.abs) <= 8

\* Whether the big.Int is an integer of 32 bits, and that integer.
IsNarrow(big) == Len(big.abs) < 4 \/ (Len(big.abs) = 4 /\ big.abs[1] < 128)

NarrowOf(big) == IF big.neg THEN -BigIntSetBytes(big.abs) ELSE BigIntSetBytes(big.abs)

\* A host integer: an integer of the model when it fits in 32 bits, the
\* big.Int of its value otherwise.
HostInteger(big) == IF IsNarrow(big) THEN NarrowOf(big) ELSE big

\* big.Int.Int64 of a big.Int that IsInt64: the word in two's complement.
Int64Word(big) ==
    IF big.neg THEN Negated(ZeroExtend(big.abs, 8)) ELSE ZeroExtend(big.abs, 8)

\* reflect.Value.SetInt and SetUint of a 64-bit word on an integer of the
\* given width: the low octets of the word.
LowOctets(word, bits) == SubSeq(word, 9 - (bits \div 8), 8)

-----------------------------------------------------------------------------
(* The typed value tree.  An ASN1Object is a record with a kind:           *)
(*   ASN1Value [tag, value]      Structured [tag, elements]                *)
(*   Boolean [value]             Integer [value]                           *)
(*   OctetString [value]         UTF8String, PrintableString, IA5String    *)
(*   Null                        Enumerated [value]                        *)
(*   ObjectIdentifier [components]   Choice [value, choiceID]              *)
(* Strings are held as their octets.                                       *)

NewStructured(tag) == [kind |-> "Structured", tag |-> tag, elements |-> <<>>]

NewSequence == NewStructured(NewUniversalTag(TagSequence, TRUE))

\* StructuredAdd putting the element in front.
StructuredAddInFront(s, element) == [s EXCEPT !.elements = <<element>> \o @]

\* (*ASN1Structured).Add
StructuredAdd(s, element) == [s EXCEPT !.elements = Append(@, element)]

NewBoolean(value) == [kind |-> "Boolean", value |-> value]

NewInteger(value) == [kind |-> "Integer", value |-> value]

NewIntegerFromBigInt(value) == [kind |-> "Integer", value |-> value]

\* NewIntegerFromBigInt of a big.Int: the node holds an integer of the model
\* when the value fits in 32 bits, and the big.Int [neg, abs] otherwise.
NewIntegerFromBig(big) ==
    IF IsNarrow(big) THEN NewIntegerFromBigInt(NarrowOf(big))
    ELSE [kind |-> "Integer", big |-> big]

\* Whether an INTEGER node holds a big.Int beyond 32 bits.
IsWide(obj) == "big" \in DOMAIN obj

NewOctetString(value) == [kind |-> "OctetString", value |-> value]

RECURSIVE ValidStringFrom(_, _)
\* utf8.ValidString on the octets b from position i on.
ValidStringFrom(b, i) ==
    IF i > Len(b) THEN TRUE
    ELSE LET c == b[i]
             cont(k) == i + k <= Len(b) /\ b[i + k] >= 128 /\ b[i + k] <= 191
             second(lo, hi) == i + 1 <= Len(b) /\ b[i + 1] >= lo /\ b[i + 1] <= hi
         IN  IF c < 128 THEN ValidStringFrom(b, i + 1)
             ELSE IF c >= 194 /\ c <= 223 THEN cont(1) /\ ValidStringFrom(b, i + 2)
             ELSE IF c >= 224 /\ c <= 239
             THEN /\ second(IF c = 224 THEN 160 ELSE 128, IF c = 237 THEN 159 ELSE 191)
                  /\ cont(2) /\ ValidStringFrom(b, i + 3)
             ELSE IF c >= 240 /\ c <= 244
             THEN /\ second(IF c = 240 THEN 144 ELSE 128, IF c = 244 THEN 143 ELSE 191)
                  /\ cont(2) /\ cont(3) /\ ValidStringFrom(b, i + 4)
             ELSE FALSE

\* utf8.ValidString
ValidString(b) == ValidStringFrom(b, 1)

\* isPrintableChar, on an octet below 128.
isPrintableChar(r) ==
    \/ r >= 65 /\ r <= 90
    \/ r >= 97 /\ r <= 122
    \/ r >= 48 /\ r <= 57
    \/ r \in {32, 39, 40, 41, 43, 44, 45, 46, 47, 58, 61, 63}

\* isPrintableString.  Ranging over a string yields a rune above 127 for
\* every octet above 127, so it suffices to look at the octets.
isPrintableString(b) == \A i \in 1..Len(b) : b[i] < 128 /\ isPrintableChar(b[i])

\* isIA5String
isIA5String(b) == \A i \in 1..Len(b) : b[i] <= 127

\* The string constructors, on text inside the alphabet of the type (they
\* panic on any other: StringNode).
NewUTF8String(value) == [kind |-> "UTF8String", value |-> value]

NewPrintableString(value) == [kind |-> "PrintableString", value |-> value]

NewIA5String(value) == [kind |-> "IA5String", value |-> value]

\* NewBitString, for unusedBits in 0..7.
NewBitString(value, unusedBits) ==
    [kind |-> "BitString", value |-> value, unusedBits |-> unusedBits]

\* A nil ASN1Object.
Nil == [kind |-> "nil"]

RECURSIVE ObjTag(_)
\* (*ASN1Choice).Tag
ChoiceTag(c) == IF c.value = Nil THEN NoTag ELSE ObjTag(c.value)

\* The Tag method of every node type.
ObjTag(obj) ==
    CASE obj.kind = "ASN1Value" -> obj.tag
      [] obj.kind = "Structured" -> obj.tag
      [] obj.kind = "Boolean" -> NewUniversalTag(TagBoolean, FALSE)
      [] obj.kind = "Integer" -> NewUniversalTag(TagInteger, FALSE)
      [] obj.kind = "OctetString" -> NewUniversalTag(TagOctetString, FALSE)
      [] obj.kind = "UTF8String" -> NewUniversalTag(TagUTF8String, FALSE)
      [] obj.kind = "PrintableString" -> NewUniversalTag(TagPrintableString, FALSE)
      [] obj.kind = "IA5String" -> NewUniversalTag(TagIA5String, FALSE)
      [] obj.kind = "BitString" -> NewUniversalTag(TagBitString, FALSE)
      [] obj.kind = "UTCTime" -> NewUniversalTag(TagUTCTime, FALSE)
      [] obj.kind = "GeneralizedTime" -> NewUniversalTag(TagGeneralizedTime, FALSE)
      [] obj.kind = "Null" -> NewUniversalTag(TagNull, FALSE)
      [] obj.kind = "Enumerated" -> NewUniversalTag(TagEnumerated, FALSE)
      [] obj.kind = "ObjectIdentifier" -> NewUniversalTag(TagOID, FALSE)
      [] obj.kind = "Choice" -> ChoiceTag(obj)

\* (*ASN1Boolean).Encode
BooleanEncode(b) ==
    EncodeTLV(NewUniversalTag(TagBoolean, FALSE), IF b THEN <<255>> ELSE <<0>>)

\* A time.Time in UTC with whole seconds: [days, secs], the days since
\* 1 March of the year 0 and the seconds since midnight.
\*
\* The days before the date y-m-d of the proleptic Gregorian calendar, for
\* m in 1..12; a day past the end of the month runs into the next one.
DaysFromYear(yy, mp, d) ==
    365 * yy + (yy \div 4) - (yy \div 100) + (yy \div 400) + ((153 * mp + 2) \div 5) + d - 1

DaysFromCivil(y, m, d) == DaysFromYear(IF m <= 2 THEN y - 1 ELSE y, (m + 9) % 12, d)

DateOf(y, months, d, total) ==
    [days |-> DaysFromCivil(y + months \div 12, (months % 12) + 1, d) + (total \div 86400),
     secs |-> total % 86400]

\* time.Date(year, month, day, hour, min, sec, 0, time.UTC): values outside
\* their ranges are normalised.
Date(year, month, day, hour, min, sec) ==
    DateOf(year, month - 1, day, hour * 3600 + min * 60 + sec)

\* The year, month and day of a day count.
CivilOfMonth(y, mp, d) ==
    [year |-> IF mp < 10 THEN y ELSE y + 1,
     month |-> IF mp < 10 THEN mp + 3 ELSE mp - 9,
     day |-> d]

CivilOfDoy(y, doy, mp) == CivilOfMonth(y, mp, doy - ((153 * mp + 2) \div 5) + 1)

CivilOfYoe(era, doe, yoe) ==
    CivilOfDoy(yoe + era * 400,
               doe - (365 * yoe + (yoe \div 4) - (yoe \div 100)),
               (5 * (doe - (365 * yoe + (yoe \div 4) - (yoe \div 100))) + 2) \div 153)

CivilOfDoe(era, doe) ==
    CivilOfYoe(era, doe,
               (doe - (doe \div 1460) + (doe \div 36524) - (doe \div 146096)) \div 365)

CivilFromDays(days) == CivilOfDoe(days \div 146097, days % 146097)

\* Decimal digits as time.Format writes them: the last width digits of the
\* absolute value, zero padded.
TwoDigits(n) == <<48 + ((n \div 10) % 10), 48 + (n % 10)>>

RECURSIVE Decimal(_)
\* The decimal digits of n >= 0, <<>> for 0.
Decimal(n) == IF n <= 0 THEN <<>> ELSE Append(Decimal(n \div 10), 48 + (n % 10))

\* The digits of n >= 0, zero padded to the width.
Padded(digits, width) ==
    IF Len(digits) >= width THEN digits
    ELSE [i \in 1..(width - Len(digits)) |-> 48] \o digits

AbsYear(y) == IF y < 0 THEN -y ELSE y

\* The year of layout "2006": a minus sign for a negative year, then its
\* digits, zero padded to four.
FourDigits(y) ==
    (IF y < 0 THEN <<45>> ELSE <<>>) \o Padded(Decimal(AbsYear(y)), 4)

\* The month, day and clock of layout "0102150405Z".
FormatRest(civil, secs) ==
    TwoDigits(civil.month) \o TwoDigits(civil.day) \o TwoDigits(secs \div 3600)
    \o TwoDigits((secs % 3600) \div 60) \o TwoDigits(secs % 60) \o <<90>>

FormatCivil(kind, civil, secs) ==
    (IF kind = "UTCTime" THEN TwoDigits(AbsYear(civil.year) % 100)
     ELSE FourDigits(civil.year))
    \o FormatRest(civil, secs)

\* time.Format("060102150405Z") for UTCTime, time.Format("20060102150405Z")
\* for GeneralizedTime.
Format(kind, t) == FormatCivil(kind, CivilFromDays(t.days), t.secs)

\* (*ASN1UTCTime).Encode and (*ASN1GeneralizedTime).Encode
TimeEncode(obj) == EncodeTLV(ObjTag(obj), Format(obj.kind, obj.time))

RECURSIVE ObjEncode(_)
RECURSIVE EncodeElements(_, _, _)
RECURSIVE EncodeElementsNext(_, _, _, _)
\* The loop of (*ASN1Structured).Encode over elements[i..]: [err, bytes].
EncodeElements(elements, i, content) ==
    IF i > Len(elements) THEN Ok(content)
    ELSE EncodeElementsNext(elements, i, content, ObjEncode(elements[i]))

\* The loop after the Encode of elements[i].
EncodeElementsNext(elements, i, content, encoded) ==
    IF encoded.err THEN Fail
    ELSE EncodeElements(elements, i + 1, content \o encoded.bytes)

\* (*ASN1Structured).Encode after the loop over the elements.
EncodeContent(tag, content) ==
    IF content.err THEN Fail ELSE EncodeTLV(tag, content.bytes)

\* (*ASN1Structured).Encode
StructuredEncode(s) == EncodeContent(s.tag, EncodeElements(s.elements, 1, <<>>))

\* ChoiceEncode giving the choice a wrapper of its own.
ChoiceEncodeWrapped(c) ==
    IF c.value = Nil THEN Fail
    ELSE EncodeTLV(NewContextSpecificTag(0, TRUE), ObjEncode(c.value).bytes)

\* (*ASN1Choice).Encode
ChoiceEncode(c) == IF c.value = Nil THEN Fail ELSE ObjEncode(c.value)

\* (*ASN1Null).Encode
NullEncode == EncodeTLV(NewUniversalTag(TagNull, FALSE), <<>>)

\* encodeSubidentifier: base 128, the continuation bit set on every octet
\* but the last; the loop leaves a negative value without octets.
encodeSubidentifier(value) ==
    IF value = 0 THEN <<0>>
    ELSE LET result == BigEndian(value, 128)
         IN  [i \in 1..Len(result) |->
                 IF i < Len(result) THEN result[i] + 128 ELSE result[i]]

RECURSIVE SubidentifiersFrom(_, _)
\* The loop of (*ASN1ObjectIdentifier).Encode over components[i..].
SubidentifiersFrom(components, i) ==
    IF i > Len(components) THEN <<>>
    ELSE encodeSubidentifier(components[i]) \o SubidentifiersFrom(components, i + 1)

\* (*ASN1ObjectIdentifier).Encode
ObjectIdentifierEncode(components) ==
    IF Len(components) < 2 THEN Fail
    ELSE EncodeTLV(NewUniversalTag(TagOID, FALSE),
                   encodeSubidentifier(components[1] * 40 + components[2])
                   \o SubidentifiersFrom(components, 3))

\* The Encode method of every node type.
ObjEncode(obj) ==
    CASE obj.kind = "ASN1Value" -> ValueEncode(obj)
      [] obj.kind = "Structured" -> StructuredEncode(obj)
      [] obj.kind = "Boolean" -> BooleanEncode(obj.value)
      [] obj.kind = "Integer" ->
            IF IsWide(obj) THEN BigIntegerEncode(obj) ELSE IntegerEncode(obj.value)
      [] obj.kind = "OctetString" -> EncodeTLV(ObjTag(obj), obj.value)
      [] obj.kind = "UTF8String" -> EncodeTLV(ObjTag(obj), obj.value)
      [] obj.kind = "PrintableString" -> EncodeTLV(ObjTag(obj), obj.value)
      [] obj.kind = "IA5String" -> EncodeTLV(ObjTag(obj), obj.value)
      [] obj.kind = "BitString" -> EncodeTLV(ObjTag(obj), <<obj.unusedBits>> \o obj.value)
      [] obj.kind = "UTCTime" -> TimeEncode(obj)
      [] obj.kind = "GeneralizedTime" -> TimeEncode(obj)
      [] obj.kind = "Null" -> NullEncode
      [] obj.kind = "Enumerated" -> EnumeratedEncode(obj.value)
      [] obj.kind = "ObjectIdentifier" -> ObjectIdentifierEncode(obj.components)
      [] obj.kind = "Choice" -> ChoiceEncode(obj)

\* What is left of a call in which a string constructor panicked.
Panicked == [kind |-> "Panic"]

\* NewNull
NewNull == [kind |-> "Null"]

\* NewEnumerated
NewEnumerated(value) == [kind |-> "Enumerated", value |-> value]

\* NewObjectIdentifier: the node, or the panic on fewer than two components,
\* a first component outside 0..2, or a second one outside 0..39 under a
\* first of 0 or 1.
NewObjectIdentifier(components) ==
    IF Len(components) < 2 THEN Panicked
    ELSE IF components[1] < 0 \/ components[1] > 2 THEN Panicked
    ELSE IF components[1] < 2 /\ (components[2] < 0 \/ components[2] > 39) THEN Panicked
    ELSE [kind |-> "ObjectIdentifier", components |-> components]

\* A string constructor applied to decoded octets.
DecodedString(kind, value) ==
    CASE kind = "UTF8String" ->
            IF ValidString(value) THEN NewUTF8String(value) ELSE Panicked
      [] kind = "PrintableString" ->
            IF isPrintableString(value) THEN NewPrintableString(value) ELSE Panicked
      [] kind = "IA5String" ->
            IF isIA5String(value) THEN NewIA5String(value) ELSE Panicked

\* The white space of ASCII: "\t", "\n", "\v", "\f", "\r" and " ".
AsciiSpace == {9, 10, 11, 12, 13, 32}

\* The UTF-8 encodings of the runes unicode.IsSpace accepts: the white space
\* of ASCII, U+0085, U+00A0, U+1680, U+2000 to U+200A, U+2028, U+2029,
\* U+202F, U+205F and U+3000.
SpaceRunes ==
    {<<c>> : c \in AsciiSpace}
    \cup {<<194, 133>>, <<194, 160>>, <<225, 154, 128>>}
    \cup {<<226, 128, c>> : c \in 128..138 \cup {168, 169, 175}}
    \cup {<<226, 129, 159>>, <<227, 128, 128>>}

\* The octets of the white-space rune str starts with, 0 if it starts with
\* none.  (No encoding is the beginning of another.)
LeadingSpace(str) ==
    IF \E n \in 1..3 : n <= Len(str) /\ SubSeq(str, 1, n) \in SpaceRunes
    THEN CHOOSE n \in 1..3 : n <= Len(str) /\ SubSeq(str, 1, n) \in SpaceRunes
    ELSE 0

\* The octets of the white-space rune str ends with, 0 if it ends with none.
\* (The last rune begins at the last octet that is no continuation octet, so
\* no encoding is the end of another.)
TrailingSpace(str) ==
    IF \E n \in 1..3 :
          n <= Len(str) /\ SubSeq(str, Len(str) - n + 1, Len(str)) \in SpaceRunes
    THEN CHOOSE n \in 1..3 :
          n <= Len(str) /\ SubSeq(str, Len(str) - n + 1, Len(str)) \in SpaceRunes
    ELSE 0

RECURSIVE TrimLeft(_)
TrimLeft(str) ==
    IF LeadingSpace(str) = 0 THEN str ELSE TrimLeft(Drop(str, LeadingSpace(str)))

RECURSIVE TrimRight(_)
TrimRight(str) ==
    IF TrailingSpace(str) = 0
    THEN str
    ELSE TrimRight(SubSeq(str, 1, Len(str) - TrailingSpace(str)))

\* strings.TrimSpace
TrimSpace(str) == TrimRight(TrimLeft(str))

RECURSIVE AtoiDigits(_, _)
\* The value of the decimal digits str after acc, -1 if one is no digit.
AtoiDigits(str, acc) ==
    IF str = <<>> THEN acc
    ELSE IF Head(str) < 48 \/ Head(str) > 57 THEN -1
    ELSE AtoiDigits(Tail(str), 10 * acc + (Head(str) - 48))

\* The end of strconv.Atoi: n is what the digits come to.
AtoiResult(n, digits, negative) ==
    IF digits = <<>> \/ n < 0 THEN [err |-> TRUE, n |-> 0]
    ELSE [err |-> FALSE, n |-> IF negative THEN -n ELSE n]

AtoiOf(digits, negative) == AtoiResult(AtoiDigits(digits, 0), digits, negative)

\* strconv.Atoi, on at most four characters: an optional sign, then at least
\* one digit and nothing but digits.  Returns [err, n].
Atoi(str) ==
    AtoiOf(IF str # <<>> /\ Head(str) \in {43, 45} THEN Tail(str) ELSE str,
           str # <<>> /\ Head(str) = 45)

\* The zero time.Time, 1 January of the year 1.
ZeroTime == [days |-> 306, secs |-> 0]

\* What parsing a time literal comes to: an error, a panic (a slice
\* expression past the end of the string), or the time.
TimeFail == [err |-> TRUE, panic |-> FALSE, time |-> ZeroTime]

TimePanic == [err |-> TRUE, panic |-> TRUE, time |-> ZeroTime]

\* The error tests that follow the Atoi calls.
TimeFields(atoi) ==
    IF \E i \in 1..Len(atoi) : atoi[i].err THEN [err |-> TRUE, fields |-> <<>>]
    ELSE [err |-> FALSE, fields |-> [i \in 1..Len(atoi) |-> atoi[i].n]]

\* The call of time.Date that ends parseUTCTime and parseGeneralizedTime;
\* pivot tells whether the year has two digits.
TimeOfFields(parsed, pivot) ==
    IF parsed.err THEN TimeFail
    ELSE [err |-> FALSE, panic |-> FALSE,
          time |-> Date(IF ~pivot THEN parsed.fields[1]
                        ELSE IF parsed.fields[1] >= 50 THEN parsed.fields[1] + 1900
                        ELSE parsed.fields[1] + 2000,
                        parsed.fields[2], parsed.fields[3], parsed.fields[4],
                        parsed.fields[5], parsed.fields[6])]

\* The Atoi calls of parseUTCTime and parseGeneralizedTime on the parts of
\* a literal.
ParseTimeFields(parts) == TimeFields([i \in 1..Len(parts) |-> Atoi(parts[i])])

\* parseUTCTime after strings.TrimSpace.
ParseUTCTrimmed(str) ==
    IF Len(str) < 11 THEN TimeFail
    ELSE IF Len(str) < 12 THEN TimePanic
    ELSE TimeOfFields(ParseTimeFields(<<SubSeq(str, 1, 2), SubSeq(str, 3, 4),
                                        SubSeq(str, 5, 6), SubSeq(str, 7, 8),
                                        SubSeq(str, 9, 10), SubSeq(str, 11, 12)>>),
                      TRUE)

\* parseGeneralizedTime after strings.TrimSpace.
ParseGeneralizedTrimmed(str) ==
    IF Len(str) < 15 THEN TimeFail
    ELSE TimeOfFields(ParseTimeFields(<<SubSeq(str, 1, 4), SubSeq(str, 5, 6),
                                        SubSeq(str, 7, 8), SubSeq(str, 9, 10),
                                        SubSeq(str, 11, 12), SubSeq(str, 13, 14)>>),
                      FALSE)

\* parseUTCTime and parseGeneralizedTime, by the kind of time.
ParseTrimmed(kind, str) ==
    IF kind = "UTCTime" THEN ParseUTCTrimmed(str) ELSE ParseGeneralizedTrimmed(str)

parseTime(kind, timeStr) == ParseTrimmed(kind, TrimSpace(timeStr))

\* parseUTCTime
parseUTCTime(timeStr) == parseTime("UTCTime", timeStr)

\* parseGeneralizedTime
parseGeneralizedTime(timeStr) == parseTime("GeneralizedTime", timeStr)

\* NewUTCTime and NewGeneralizedTime; t.UTC() of a time in UTC is t.
NewUTCTime(t) == [kind |-> "UTCTime", time |-> t]

NewGeneralizedTime(t) == [kind |-> "GeneralizedTime", time |-> t]

\* (*ASN1UTCTime).SetTime, (*ASN1GeneralizedTime).SetTime
SetTime(obj, t) == [obj EXCEPT !.time = t]

\* What a typed Decode function returns: [err, panic, obj, consumed].
DecodeFail == [err |-> TRUE, panic |-> FALSE, obj |-> NewASN1Value(NoTag, <<>>), consumed |-> 0]

DecodePanic == [err |-> TRUE, panic |-> TRUE, obj |-> NewASN1Value(NoTag, <<>>), consumed |-> 0]

DecodeOk(obj, consumed) == [err |-> FALSE, panic |-> FALSE, obj |-> obj, consumed |-> consumed]

\* The end of DecodeUTCTime and DecodeGeneralizedTime.
DecodedTime(kind, parsed, consumed) ==
    IF parsed.panic THEN DecodePanic
    ELSE IF parsed.err THEN DecodeFail
    ELSE IF kind = "UTCTime" THEN DecodeOk(NewUTCTime(parsed.time), consumed)
    ELSE DecodeOk(NewGeneralizedTime(parsed.time), consumed)

\* DecodeUTCTime and DecodeGeneralizedTime after DecodeTLV.
DecodeTimeValue(kind, value) ==
    IF value.err THEN DecodeFail
    ELSE IF value.obj.tag # NewUniversalTag(IF kind = "UTCTime" THEN TagUTCTime
                                            ELSE TagGeneralizedTime, FALSE)
    THEN DecodeFail
    ELSE DecodedTime(kind, parseTime(kind, value.obj.value), value.consumed)

DecodeTime(kind, octets) == DecodeTimeValue(kind, DecodeTLV(octets))

\* DecodeUTCTime
DecodeUTCTime(octets) == DecodeTime("UTCTime", octets)

\* DecodeGeneralizedTime
DecodeGeneralizedTime(octets) == DecodeTime("GeneralizedTime", octets)

\* DecodeUTF8String, DecodePrintableString and DecodeIA5String after
\* DecodeTLV.
DecodeStringValue(kind, asn1Value) ==
    IF asn1Value.err THEN DecodeFail
    ELSE IF asn1Value.obj.tag.Class # 0 THEN DecodeFail
    ELSE CASE kind = "UTF8String" ->
                IF asn1Value.obj.tag.Number # TagUTF8String THEN DecodeFail
                ELSE IF ~ValidString(asn1Value.obj.value) THEN DecodeFail
                ELSE DecodeOk(NewUTF8String(asn1Value.obj.value), asn1Value.consumed)
           [] kind = "PrintableString" ->
                IF asn1Value.obj.tag.Number # TagPrintableString THEN DecodeFail
                ELSE IF ~isPrintableString(asn1Value.obj.value) THEN DecodeFail
                ELSE DecodeOk(NewPrintableString(asn1Value.obj.value),
                              asn1Value.consumed)
           [] kind = "IA5String" ->
                IF asn1Value.obj.tag.Number # TagIA5String THEN DecodeFail
                ELSE IF ~isIA5String(asn1Value.obj.value) THEN DecodeFail
                ELSE DecodeOk(NewIA5String(asn1Value.obj.value), asn1Value.consumed)

DecodeString(kind, octets) == DecodeStringValue(kind, DecodeTLV(octets))

\* DecodeUTF8String
DecodeUTF8String(octets) == DecodeString("UTF8String", octets)

\* DecodePrintableString
DecodePrintableString(octets) == DecodeString("PrintableString", octets)

\* DecodeIA5String
DecodeIA5String(octets) == DecodeString("IA5String", octets)

\* The end of the time cases of convertPrimitiveValue.
TimeOrRaw(val, time) ==
    IF time.panic THEN Panicked
    ELSE IF time.err THEN val
    ELSE time.obj

\* The time cases of convertPrimitiveValue: the value is encoded again and
\* handed to the typed decoder; it stays raw when that fails.
ConvertedTime(val, tlvData, kind) ==
    IF tlvData.err THEN val ELSE TimeOrRaw(val, DecodeTime(kind, tlvData.bytes))

\* convertPrimitiveValue
\* The INTEGER case of convertPrimitiveValue.  Content of up to three
\* octets is an integer of the model; longer content is read octet by octet.
ConvertedInteger(val) ==
    IF Len(val.value) = 0 THEN val
    ELSE IF Len(val.value) <= 3
    THEN NewIntegerFromBigInt(DecodeIntegerValue(val.value).value)
    ELSE NewIntegerFromBig(DecodeBigValue(val.value).big)

\* convertPrimitiveValue
convertPrimitiveValue(val) ==
    LET tag == val.tag
        value == val.value
    IN  IF tag.Class = 2 THEN val
        ELSE IF tag.Class # 0 THEN val
        ELSE CASE tag.Number = TagBoolean ->
                    IF Len(value) = 1 THEN NewBoolean(value[1] # 0) ELSE val
               [] tag.Number = TagInteger -> ConvertedInteger(val)
               [] tag.Number = TagOctetString -> NewOctetString(value)
               [] tag.Number = TagUTF8String -> DecodedString("UTF8String", value)
               [] tag.Number = TagPrintableString ->
                    DecodedString("PrintableString", value)
               [] tag.Number = TagIA5String -> DecodedString("IA5String", value)
               [] tag.Number \in {TagUTCTime, TagGeneralizedTime} ->
                    ConvertedTime(val, EncodeTLV(tag, value),
                                  IF tag.Number = TagUTCTime THEN "UTCTime"
                                  ELSE "GeneralizedTime")
               [] OTHER -> val

RECURSIVE convertToHighLevelObject(_)
RECURSIVE ParseElements(_, _, _)
RECURSIVE ParseElementsNext(_, _, _, _)
RECURSIVE ParseElementsValue(_, _, _, _)
\* The element loop shared by UnmarshalWithOptions, convertToHighLevelObject,
\* replaceTag and restoreTag: decode one TLV after another from content,
\* converting each.  Returns [err, panic, structured]; on a decode error the
\* structured value holds the elements added before it.
ParseElements(content, offset, structured) ==
    IF offset >= Len(content)
    THEN [err |-> FALSE, panic |-> FALSE, structured |-> structured]
    ELSE ParseElementsValue(content, offset, structured, DecodeTLV(Drop(content, offset)))

\* The loop after DecodeTLV of the next element.
ParseElementsValue(content, offset, structured, elementValue) ==
    IF elementValue.err
    THEN [err |-> TRUE, panic |-> FALSE, structured |-> structured]
    ELSE ParseElementsNext(content, offset + elementValue.consumed, structured,
                           convertToHighLevelObject(elementValue.obj))

\* structured.Add(element) and the next turn of the loop, unless the
\* conversion of the element panicked.
ParseElementsNext(content, offset, structured, element) ==
    IF element.kind = "Panic"
    THEN [err |-> TRUE, panic |-> TRUE, structured |-> structured]
    ELSE ParseElements(content, offset, StructuredAdd(structured, element))

\* What a caller that ignores decode errors makes of the element loop.
Parsed(parsed) == IF parsed.panic THEN Panicked ELSE parsed.structured

\* The constructed branch of convertToHighLevelObject.
ConvertedStructure(val, parsed) ==
    IF parsed.panic THEN Panicked
    ELSE IF parsed.err THEN val
    ELSE parsed.structured

convertToHighLevelObject(val) ==
    IF val.tag.Constructed
    THEN ConvertedStructure(val, ParseElements(val.value, 0, NewStructured(val.tag)))
    ELSE convertPrimitiveValue(val)

\* isConstructedType
isConstructedType(obj) == obj.kind = "Structured"

\* replaceTag losing the constructed bit of the value it retags.
replaceTagPrimitive(obj, tagNum) ==
    LET encoded == ObjEncode(obj)
    IN  IF encoded.err THEN obj
        ELSE LET origValue == DecodeTLV(encoded.bytes)
             IN  IF origValue.err THEN obj
                 ELSE NewASN1Value([Class |-> 2, Constructed |-> FALSE,
                                    Number |-> tagNum], origValue.obj.value)

\* The end of replaceTag and restoreTag: the value under its new tag, parsed
\* into its elements when the tag is constructed.
Retagged(newTag, value, primitive) ==
    IF newTag.Constructed
    THEN Parsed(ParseElements(value, 0, NewStructured(newTag)))
    ELSE primitive

\* replaceTag after DecodeTLV of the encoding.
ReplaceDecoded(obj, tagNum, origValue) ==
    IF origValue.err THEN obj
    ELSE Retagged([Class |-> 2, Constructed |-> origValue.obj.tag.Constructed,
                   Number |-> tagNum],
                  origValue.obj.value,
                  NewASN1Value([Class |-> 2,
                                Constructed |-> origValue.obj.tag.Constructed,
                                Number |-> tagNum], origValue.obj.value))

\* replaceTag after obj.Encode().
ReplaceEncoded(obj, tagNum, encoded) ==
    IF encoded.err THEN obj ELSE ReplaceDecoded(obj, tagNum, DecodeTLV(encoded.bytes))

\* replaceTag: IMPLICIT tagging on marshal.
replaceTag(obj, tagNum) == ReplaceEncoded(obj, tagNum, ObjEncode(obj))

\* The types restoreTag knows, and the universal tag number of each.
RestoredTypes == {"boolean", "integer", "octetstring", "utf8string",
                  "printablestring", "ia5string", "utctime",
                  "generalizedtime", "sequence", "set", "choice"}

RestoredNumber(asn1Type) ==
    CASE asn1Type = "boolean" -> TagBoolean
      [] asn1Type = "integer" -> TagInteger
      [] asn1Type = "octetstring" -> TagOctetString
      [] asn1Type = "utf8string" -> TagUTF8String
      [] asn1Type = "printablestring" -> TagPrintableString
      [] asn1Type = "ia5string" -> TagIA5String
      [] asn1Type = "utctime" -> TagUTCTime
      [] asn1Type = "generalizedtime" -> TagGeneralizedTime
      [] asn1Type = "sequence" -> TagSequence
      [] asn1Type = "set" -> TagSet
      [] asn1Type = "choice" -> TagSequence

\* restoreTag with the universal tag of the type in hand.
RestoredAs(newTag, value) ==
    IF newTag.Constructed
    THEN Parsed(ParseElements(value, 0, NewStructured(newTag)))
    ELSE convertPrimitiveValue(NewASN1Value(newTag, value))

\* restoreTag after DecodeTLV of the encoding.
RestoreDecoded(obj, asn1Type, currentValue) ==
    IF currentValue.err THEN obj
    ELSE IF asn1Type \notin RestoredTypes THEN obj
    ELSE RestoredAs([Class |-> 0,
                     Constructed |-> asn1Type \in {"sequence", "set", "choice"},
                     Number |-> RestoredNumber(asn1Type)],
                    currentValue.obj.value)

\* restoreTag after obj.Encode().
RestoreEncoded(obj, asn1Type, encoded) ==
    IF encoded.err THEN obj ELSE RestoreDecoded(obj, asn1Type, DecodeTLV(encoded.bytes))

\* restoreTag: undoing IMPLICIT tagging on unmarshal.
restoreTag(obj, asn1Type) == RestoreEncoded(obj, asn1Type, ObjEncode(obj))

-----------------------------------------------------------------------------
(* Host types and host values, as reflection sees them.                    *)
(*   [k |-> "int", bits]      a signed integer of that width; an integer   *)
(*   [k |-> "uint", bits]     an unsigned integer of that width; an integer*)
(*   [k |-> "bool"]           a BOOLEAN                                    *)
(*   [k |-> "bytes"]          []byte; a sequence of octets                 *)
(*   [k |-> "string"]         a string; the sequence of its octets         *)
(*   [k |-> "ptr", elem]      a pointer; <<>> when nil, <<v>> otherwise    *)
(*   [k |-> "slice", elem]    a slice; a sequence of element values        *)
(*   [k |-> "time"]           time.Time, a struct to reflection; a time    *)
(*                            [days, secs] in UTC                          *)
(*   [k |-> "struct", hooks, fields]                                       *)
(*                            a struct; the tuple of its field values.     *)
(*                            hooks names the MarshalASN1/UnmarshalASN1    *)
(*                            pair of the type, "none" without one.        *)
(* A field is [name, exported, ann, type]; ann is the asn1 annotation:     *)
(* [raw |-> "none"] without one, [raw |-> "skip"] for "-", and otherwise   *)
(* [raw |-> "desc", type, opts] with the comma-separated parts split.      *)

IntType(bits) == [k |-> "int", bits |-> bits]
UintType(bits) == [k |-> "uint", bits |-> bits]
BoolType == [k |-> "bool"]
BytesType == [k |-> "bytes"]
StringType == [k |-> "string"]
PtrType(elem) == [k |-> "ptr", elem |-> elem]
SliceType(elem) == [k |-> "slice", elem |-> elem]
TimeType == [k |-> "time"]
StructType(hooks, fields) == [k |-> "struct", hooks |-> hooks, fields |-> fields]

NoAnn == [raw |-> "none"]
SkipAnn == [raw |-> "skip"]
Desc(type, opts) == [raw |-> "desc", type |-> type, opts |-> opts]

OptOptional == [t |-> "optional", n |-> 0]
OptOmitempty == [t |-> "omitempty", n |-> 0]
OptExplicit == [t |-> "explicit", n |-> 0]
OptTag(n) == [t |-> "tag", n |-> n]
OptBadTag == [t |-> "badtag", n |-> 0]
OptUnknown == [t |-> "unknown", n |-> 0]

Field(name, ann, type) == [name |-> name, exported |-> TRUE, ann |-> ann, type |-> type]

RECURSIVE ZeroValue(_)
\* The zero value of a host type: what a fresh Unmarshal target holds.
ZeroValue(T) ==
    CASE T.k \in {"int", "uint"} -> 0
      [] T.k = "bool" -> FALSE
      [] T.k = "bytes" -> <<>>
      [] T.k = "string" -> <<>>
      [] T.k = "ptr" -> <<>>
      [] T.k = "slice" -> <<>>
      [] T.k = "time" -> ZeroTime
      [] T.k = "struct" -> [i \in 1..Len(T.fields) |-> ZeroValue(T.fields[i].type)]

\* fieldInfo
NewFieldInfo(type) ==
    [Type |-> type, Optional |-> FALSE, Tag |-> 0, HasTag |-> FALSE,
     Omitempty |-> FALSE, Explicit |-> FALSE]

RECURSIVE ParseOptions(_, _, _)
\* The option loop of parseASN1Tag over parts[i..]: [err, info].
ParseOptions(opts, i, info) ==
    IF i > Len(opts) THEN [err |-> FALSE, info |-> info]
    ELSE LET part == opts[i]
         IN  CASE part.t = "optional" ->
                    ParseOptions(opts, i + 1, [info EXCEPT !.Optional = TRUE])
               [] part.t = "omitempty" ->
                    ParseOptions(opts, i + 1, [info EXCEPT !.Omitempty = TRUE])
               [] part.t = "explicit" ->
                    ParseOptions(opts, i + 1, [info EXCEPT !.Explicit = TRUE])
               [] part.t = "tag" ->
                    ParseOptions(opts, i + 1, [info EXCEPT !.Tag = part.n, !.HasTag = TRUE])
               [] part.t = "badtag" -> [err |-> TRUE, info |-> info]
               [] OTHER -> ParseOptions(opts, i + 1, info)

\* parseASN1Tag, on an annotation that is neither empty nor "-".
parseASN1Tag(ann) == ParseOptions(ann.opts, 1, NewFieldInfo(ann.type))

\* The descriptor marshalStruct and unmarshalStruct use for a field.
FieldInfoOf(f) ==
    IF f.ann.raw = "desc" THEN parseASN1Tag(f.ann)
    ELSE [err |-> FALSE, info |-> NewFieldInfo("auto")]

\* &MarshalOptions{UseContextTags: useContextTags}
MarshalOptions(useContextTags) == [UseContextTags |-> useContextTags]

\* The options object DefaultMarshalOptions returns.
DefaultOptions == MarshalOptions(TRUE)

-----------------------------------------------------------------------------------------------------------------------------------------------------
(* Custom codec hooks.  hooks names the MarshalASN1/UnmarshalASN1 pair of a *)
(* struct type; the pairs of the model are those of three types of the     *)
(* repository's tests:                                                     *)
(*   "phone"  PhoneNumber { Digits string }: 0xAA, then the digits;        *)
(*   "bytes"  CustomBytes { data []byte }: a length octet, then the data;  *)
(*   "int"    CustomInteger { value int64 }: the value, big-endian, with   *)
(*            leading zero octets trimmed (values of the model are >= 0).  *)

HookPrefix == 170

\* PhoneNumber.MarshalASN1
PhoneMarshal(v) == Ok(<<HookPrefix>> \o v[1])

\* (*PhoneNumber).UnmarshalASN1
PhoneUnmarshal(v, bytes) ==
    IF Len(bytes) < 1 \/ bytes[1] # HookPrefix THEN [err |-> TRUE, panic |-> FALSE, v |-> v]
    ELSE [err |-> FALSE, panic |-> FALSE, v |-> <<SubSeq(bytes, 2, Len(bytes))>>]

\* (*CustomBytes).MarshalASN1
CustomBytesMarshal(v) == Ok(<<Len(v[1]) % 256>> \o v[1])

\* (*CustomBytes).UnmarshalASN1
CustomBytesUnmarshal(v, bytes) ==
    IF Len(bytes) < 1 THEN [err |-> TRUE, panic |-> FALSE, v |-> v]
    ELSE IF Len(bytes) < 1 + bytes[1] THEN [err |-> TRUE, panic |-> FALSE, v |-> v]
    ELSE [err |-> FALSE, panic |-> FALSE, v |-> <<SubSeq(bytes, 2, 1 + bytes[1])>>]

\* (*CustomInteger).MarshalASN1, for a value >= 0.
CustomIntegerMarshal(v) == Ok(IF v[1] = 0 THEN <<0>> ELSE BigEndian(v[1], 256))

\* (*CustomInteger).UnmarshalASN1, for at most three octets.
CustomIntegerUnmarshal(v, bytes) == [err |-> FALSE, panic |-> FALSE, v |-> <<BigIntSetBytes(bytes)>>]

\* m.MarshalASN1() of tryCustomMarshal: [err, bytes].
HookMarshal(T, v) ==
    CASE T.hooks = "phone" -> PhoneMarshal(v)
      [] T.hooks = "bytes" -> CustomBytesMarshal(v)
      [] T.hooks = "int" -> CustomIntegerMarshal(v)

\* u.UnmarshalASN1(rawBytes) of unmarshalValue: [err, v].
HookUnmarshal(T, v, bytes) ==
    CASE T.hooks = "phone" -> PhoneUnmarshal(v, bytes)
      [] T.hooks = "bytes" -> CustomBytesUnmarshal(v, bytes)
      [] T.hooks = "int" -> CustomIntegerUnmarshal(v, bytes)

HasHooks(T) == T.k = "struct" /\ T.hooks # "none"

-----------------------------------------------------------------------------
(* Marshal.  Results are [err, obj].                                       *)

(* A call that panics is a failed call with the panic flag set.            *)

MarshalFail == [err |-> TRUE, panic |-> FALSE, obj |-> NewASN1Value(NoTag, <<>>)]

MarshalPanic == [err |-> TRUE, panic |-> TRUE, obj |-> NewASN1Value(NoTag, <<>>)]

MarshalOk(obj) == [err |-> FALSE, panic |-> FALSE, obj |-> obj]

\* A string constructor applied to the octets of a string: the node, or the
\* constructor's panic on text outside the alphabet of the type.
StringNode(kind, value) ==
    CASE kind = "UTF8String" ->
            IF ValidString(value) THEN MarshalOk(NewUTF8String(value)) ELSE MarshalPanic
      [] kind = "PrintableString" ->
            IF isPrintableString(value) THEN MarshalOk(NewPrintableString(value))
            ELSE MarshalPanic
      [] kind = "IA5String" ->
            IF isIA5String(value) THEN MarshalOk(NewIA5String(value)) ELSE MarshalPanic

\* convertToHighLevelObject inside wrapCustomMarshaledBytes.
ConvertedNode(obj) == IF obj.kind = "Panic" THEN MarshalPanic ELSE MarshalOk(obj)

\* wrapCustomMarshaledBytes
wrapCustomMarshaledBytes(rawBytes, info) ==
    CASE info.Type = "octetstring" -> MarshalOk(NewOctetString(rawBytes))
      [] info.Type = "integer" ->
            LET intVal == DecodeIntegerValue(rawBytes)
            IN  IF intVal.err THEN MarshalFail
                ELSE MarshalOk(NewIntegerFromBigInt(intVal.value))
      [] info.Type = "utf8string" -> StringNode("UTF8String", rawBytes)
      [] info.Type = "printablestring" -> StringNode("PrintableString", rawBytes)
      [] info.Type = "ia5string" -> StringNode("IA5String", rawBytes)
      [] info.Type = "sequence" ->
            LET asn1Value == DecodeTLV(rawBytes)
            IN  IF asn1Value.err THEN MarshalFail
                ELSE ConvertedNode(convertToHighLevelObject(asn1Value.obj))
      [] info.Type = "boolean" ->
            IF Len(rawBytes) # 1 THEN MarshalFail
            ELSE MarshalOk(NewBoolean(rawBytes[1] # 0))
      [] info.Type = "bitstring" -> MarshalOk(NewBitString(rawBytes, 0))
      [] OTHER -> MarshalOk(NewOctetString(rawBytes))

\* Whether tryCustomMarshal finds an ASN1Marshaler: the type carries the
\* hooks (value receiver), or is a pointer to one that does.
HasMarshaler(T) == HasHooks(T) \/ (T.k = "ptr" /\ HasHooks(T.elem))

\* tryCustomMarshal, when it finds a marshaler. MarshalASN1 called through a
\* nil pointer dereferences it and panics.
tryCustomMarshal(v, T, info) ==
    IF HasHooks(T)
    THEN wrapCustomMarshaledBytes(HookMarshal(T, v).bytes, info)
    ELSE IF v = <<>> THEN MarshalPanic
    ELSE wrapCustomMarshaledBytes(HookMarshal(T.elem, v[1]).bytes, info)

\* Whether a host integer is held as a big.Int [neg, abs], as those beyond
\* 32 bits are.
IsBigHost(v) == SubSeq(ToString(v), 1, 1) = "["

\* NewInteger(v.Int()) of a signed kind, NewInteger(int64(v.Uint())) of an
\* unsigned one: the conversion to int64 wraps a uint64 from 2^63 on.
marshalInteger(v, T) ==
    IF ~IsBigHost(v) THEN NewInteger(v)
    ELSE IF T.k = "uint" THEN NewIntegerFromBig(BigOfInt64(Uint(v.abs)))
    ELSE NewIntegerFromBig(v)

RECURSIVE marshalValue(_, _, _)
RECURSIVE marshalStruct(_, _, _)
RECURSIVE marshalSlice(_, _, _)
RECURSIVE marshalTypedValue(_, _, _, _)
RECURSIVE marshalFields(_, _, _, _, _)
RECURSIVE marshalFieldsNext(_, _, _, _, _, _)
RECURSIVE marshalElems(_, _, _, _, _)
RECURSIVE marshalElemsNext(_, _, _, _, _, _)
RECURSIVE marshalChoiceStruct(_, _, _)

\* marshalValue
marshalValue(v, T, opts) ==
    CASE T.k = "ptr" -> IF v = <<>> THEN MarshalFail ELSE marshalValue(v[1], T.elem, opts)
      [] T.k \in {"struct", "time"} -> marshalStruct(v, T, opts)
      [] T.k = "bytes" -> MarshalOk(NewOctetString(v))
      [] T.k = "slice" -> marshalSlice(v, T, opts)
      [] T.k = "string" -> StringNode("UTF8String", v)
      [] T.k \in {"int", "uint"} -> MarshalOk(marshalInteger(v, T))
      [] T.k = "bool" -> MarshalOk(NewBoolean(v))
      [] OTHER -> MarshalFail

\* The context tagging step of marshalStruct.
ApplyContextTag(obj, info, opts) ==
    IF info.HasTag /\ opts.UseContextTags
    THEN IF info.Explicit
         THEN StructuredAdd(NewStructured(NewContextSpecificTag(info.Tag, TRUE)), obj)
         ELSE replaceTag(obj, info.Tag)
    ELSE obj

\* What one turn of the field loop of marshalStruct comes to: the field is
\* skipped, the call fails, or obj is added to the SEQUENCE.
FieldSkipped == [err |-> FALSE, panic |-> FALSE, skip |-> TRUE, obj |-> MarshalFail.obj]

FieldFailed == [err |-> TRUE, panic |-> FALSE, skip |-> FALSE, obj |-> MarshalFail.obj]

FieldMarshalled(m, info, opts) ==
    IF m.err THEN [err |-> TRUE, panic |-> m.panic, skip |-> FALSE, obj |-> m.obj]
    ELSE [err |-> FALSE, panic |-> FALSE, skip |-> FALSE,
          obj |-> ApplyContextTag(m.obj, info, opts)]

\* The turn of the field loop for a field whose descriptor parsed is.
marshalFieldWithInfo(field, f, parsed, m, opts) ==
    IF parsed.err THEN FieldFailed
    ELSE IF f.type.k = "ptr" /\ field = <<>>
    THEN IF parsed.info.Optional THEN FieldSkipped ELSE FieldFailed
    ELSE FieldMarshalled(m, parsed.info, opts)

\* The field loop of marshalStruct over fields i.., seq the SEQUENCE so far.
marshalFields(v, T, i, seq, opts) ==
    IF i > Len(T.fields) THEN MarshalOk(seq)
    ELSE IF ~T.fields[i].exported \/ T.fields[i].ann.raw = "skip"
    THEN marshalFieldsNext(v, T, i, seq, FieldSkipped, opts)
    ELSE marshalFieldsNext(v, T, i, seq,
            marshalFieldWithInfo(v[i], T.fields[i], FieldInfoOf(T.fields[i]),
                IF FieldInfoOf(T.fields[i]).info.Type = "auto"
                THEN marshalValue(v[i], T.fields[i].type, opts)
                ELSE marshalTypedValue(v[i], T.fields[i].type,
                                       FieldInfoOf(T.fields[i]).info, opts), opts), opts)

marshalFieldsNext(v, T, i, seq, step, opts) ==
    IF step.err THEN IF step.panic THEN MarshalPanic ELSE MarshalFail
    ELSE marshalFields(v, T, i + 1,
                       IF step.skip THEN seq ELSE StructuredAdd(seq, step.obj), opts)

\* marshalStruct; a time.Time becomes a UTCTime.
marshalStruct(v, T, opts) ==
    IF T.k = "time" THEN MarshalOk(NewUTCTime(v)) ELSE marshalFields(v, T, 1, NewSequence, opts)

\* The element loop of marshalSlice.
marshalElems(v, T, i, seq, opts) ==
    IF i > Len(v) THEN MarshalOk(seq)
    ELSE marshalElemsNext(v, T, i, seq, marshalValue(v[i], T.elem, opts), opts)

marshalElemsNext(v, T, i, seq, m, opts) ==
    IF m.err THEN m
    ELSE marshalElems(v, T, i + 1, StructuredAdd(seq, m.obj), opts)

\* marshalSlice
marshalSlice(v, T, opts) == marshalElems(v, T, 1, NewSequence, opts)

\* The fields marshalChoiceStruct counts: exported, not skipped, pointers,
\* and not nil.
ChosenFields(v, T) ==
    {i \in 1..Len(T.fields) :
        /\ T.fields[i].exported
        /\ T.fields[i].ann.raw # "skip"
        /\ T.fields[i].type.k = "ptr"
        /\ v[i] # <<>>}

\* The last step of marshalChoiceStruct: the chosen value inside a wrapper
\* under the context tag of its field.
ChoiceWrapped(m, info, opts) ==
    IF m.err THEN m
    ELSE IF info.HasTag /\ opts.UseContextTags
    THEN MarshalOk(StructuredAdd(
            NewStructured(NewContextSpecificTag(info.Tag, isConstructedType(m.obj))),
            m.obj))
    ELSE m

\* marshalChoiceStruct.  With several fields set the call fails, whether at
\* the descriptor of the first or at the sight of the second.  A time.Time
\* has no exported field, so none is set.
marshalChoiceStruct(v, T, opts) ==
    IF T.k = "time" THEN MarshalFail
    ELSE IF Cardinality(ChosenFields(v, T)) # 1 THEN MarshalFail
    ELSE LET i == CHOOSE j \in ChosenFields(v, T) : TRUE
             parsed == FieldInfoOf(T.fields[i])
         IN  IF parsed.err THEN MarshalFail
             ELSE ChoiceWrapped(IF parsed.info.Type = "auto"
                                THEN marshalValue(v[i], T.fields[i].type, opts)
                                ELSE marshalTypedValue(v[i], T.fields[i].type,
                                                       parsed.info, opts),
                                parsed.info, opts)

\* marshalTypedValue, for the descriptor types boolean, integer, octetstring,
\* the three string types, the two time types, sequence and choice (of a
\* struct).  Under "sequence" every slice goes to marshalSlice, a []byte as
\* a slice of uint8.
marshalTypedValue(v, T, info, opts) ==
    IF HasMarshaler(T) THEN tryCustomMarshal(v, T, info)
    ELSE IF T.k = "ptr"
    THEN IF v = <<>> THEN MarshalFail ELSE marshalTypedValue(v[1], T.elem, info, opts)
    ELSE CASE info.Type = "boolean" ->
                IF T.k # "bool" THEN MarshalFail ELSE MarshalOk(NewBoolean(v))
           [] info.Type = "integer" ->
                IF T.k \in {"int", "uint"} THEN MarshalOk(marshalInteger(v, T))
                ELSE MarshalFail
           [] info.Type = "octetstring" ->
                IF T.k = "bytes" THEN MarshalOk(NewOctetString(v)) ELSE MarshalFail
           [] info.Type = "utf8string" ->
                IF T.k # "string" THEN MarshalFail ELSE StringNode("UTF8String", v)
           [] info.Type = "printablestring" ->
                IF T.k # "string" THEN MarshalFail ELSE StringNode("PrintableString", v)
           [] info.Type = "ia5string" ->
                IF T.k # "string" THEN MarshalFail ELSE StringNode("IA5String", v)
           [] info.Type = "utctime" ->
                IF T.k = "time" THEN MarshalOk(NewUTCTime(v)) ELSE MarshalFail
           [] info.Type = "generalizedtime" ->
                IF T.k = "time" THEN MarshalOk(NewGeneralizedTime(v)) ELSE MarshalFail
           [] info.Type = "sequence" ->
                IF T.k \in {"struct", "time"} THEN marshalStruct(v, T, opts)
                ELSE IF T.k = "slice" THEN marshalSlice(v, T, opts)
                ELSE IF T.k = "bytes" THEN marshalSlice(v, SliceType(UintType(8)), opts)
                ELSE MarshalFail
           [] info.Type = "choice" ->
                IF T.k \in {"struct", "time"} THEN marshalChoiceStruct(v, T, opts)
                ELSE MarshalFail
           [] OTHER -> MarshalFail

\* What MarshalWithOptions returns: [err, panic, bytes].
Marshalled(encoded) == [err |-> encoded.err, panic |-> FALSE, bytes |-> encoded.bytes]

\* The encoding step of MarshalWithOptions.
EncodeMarshalled(m) ==
    IF m.err THEN [err |-> TRUE, panic |-> m.panic, bytes |-> <<>>]
    ELSE Marshalled(ObjEncode(m.obj))

\* MarshalWithOptions, called with a pointer to a value of type T: [err, bytes].
MarshalWithOptions(v, T, opts) == EncodeMarshalled(marshalValue(<<v>>, PtrType(T), opts))

\* Marshal
Marshal(v, T) == MarshalWithOptions(v, T, DefaultOptions)

-----------------------------------------------------------------------------
(* Unmarshal.  Results are [err, v]: v is the target location afterwards,  *)
(* which a failed call may have partly filled.                             *)

\* extractRawBytes after DecodeTLV of the encoding.
RawOfDecoded(val) == IF val.err THEN Fail ELSE Ok(val.obj.value)

\* extractRawBytes after obj.Encode().
RawOfEncoded(encoded) ==
    IF encoded.err THEN Fail ELSE RawOfDecoded(DecodeTLV(encoded.bytes))

\* extractRawBytes: [err, bytes].
extractRawBytes(obj) ==
    CASE obj.kind = "OctetString" -> Ok(obj.value)
      [] obj.kind \in {"Integer", "Structured"} -> RawOfEncoded(ObjEncode(obj))
      [] obj.kind = "UTF8String" -> Ok(obj.value)
      [] obj.kind = "PrintableString" -> Ok(obj.value)
      [] obj.kind = "IA5String" -> Ok(obj.value)
      [] obj.kind = "Boolean" -> Ok(IF obj.value THEN <<255>> ELSE <<0>>)
      [] obj.kind = "BitString" -> Ok(obj.value)
      [] obj.kind = "ASN1Value" -> Ok(obj.value)
      [] OTHER -> Fail

\* reflect.Value.SetInt on a signed integer of the given width.  The
\* integers of the model fit in 32 bits, so a location of 32 bits or more
\* holds x itself.
SetInt(x, bits) ==
    IF bits >= 32 THEN x
    ELSE LET m == Power(2, bits)
             r == x % m
         IN  IF r >= m \div 2 THEN r - m ELSE r

\* unmarshalString
unmarshalString(obj, v) ==
    IF obj.kind \in {"UTF8String", "PrintableString", "IA5String"}
    THEN [err |-> FALSE, panic |-> FALSE, v |-> obj.value]
    ELSE [err |-> TRUE, panic |-> FALSE, v |-> v]

\* unmarshalInt.  An integer of 32 bits is an int64, so the IsInt64 test is
\* made on the wider ones.
unmarshalInt(obj, v, T) ==
    IF obj.kind # "Integer" THEN [err |-> TRUE, panic |-> FALSE, v |-> v]
    ELSE IF ~IsWide(obj)
    THEN [err |-> FALSE, panic |-> FALSE, v |-> SetInt(obj.value, T.bits)]
    ELSE IF ~IsInt64(obj.big) THEN [err |-> TRUE, panic |-> FALSE, v |-> v]
    ELSE [err |-> FALSE, panic |-> FALSE,
          v |-> HostInteger(BigOfInt64(LowOctets(Int64Word(obj.big), T.bits)))]

\* reflect.Value.SetUint on an unsigned integer of the given width.
SetUint(x, bits) == IF bits >= 32 THEN x ELSE x % Power(2, bits)

\* unmarshalUint.  An integer of 32 bits that is not negative is a uint64,
\* so the IsUint64 test is made on the wider ones.
unmarshalUint(obj, v, T) ==
    IF obj.kind # "Integer" THEN [err |-> TRUE, panic |-> FALSE, v |-> v]
    ELSE IF ~IsWide(obj)
    THEN IF obj.value < 0 THEN [err |-> TRUE, panic |-> FALSE, v |-> v]
         ELSE [err |-> FALSE, panic |-> FALSE, v |-> SetUint(obj.value, T.bits)]
    ELSE IF obj.big.neg \/ ~IsUint64(obj.big)
    THEN [err |-> TRUE, panic |-> FALSE, v |-> v]
    ELSE [err |-> FALSE, panic |-> FALSE,
          v |-> HostInteger([neg |-> FALSE,
                             abs |-> Strip(LowOctets(ZeroExtend(obj.big.abs, 8),
                                                     T.bits))])]

\* unmarshalBool
unmarshalBool(obj, v) ==
    IF obj.kind # "Boolean" THEN [err |-> TRUE, panic |-> FALSE, v |-> v]
    ELSE [err |-> FALSE, panic |-> FALSE, v |-> obj.value]

\* unmarshalTime
unmarshalTime(obj, v) ==
    IF obj.kind \in {"UTCTime", "GeneralizedTime"}
    THEN [err |-> FALSE, panic |-> FALSE, v |-> obj.time]
    ELSE [err |-> TRUE, panic |-> FALSE, v |-> v]

RECURSIVE unmarshalValue(_, _, _, _)
RECURSIVE unmarshalStruct(_, _, _, _)
RECURSIVE unmarshalSlice(_, _, _, _)
RECURSIVE unmarshalFields(_, _, _, _, _, _)
RECURSIVE unmarshalFieldsNext(_, _, _, _, _, _, _)
RECURSIVE unmarshalElems(_, _, _, _, _)
RECURSIVE unmarshalElemsNext(_, _, _, _, _, _)

\* The custom branch of unmarshalValue.
customUnmarshal(rawBytes, v, T) ==
    IF rawBytes.err THEN [err |-> TRUE, panic |-> FALSE, v |-> v]
    ELSE HookUnmarshal(T, v, rawBytes.bytes)

\* The pointer whose target a nested unmarshalValue call has filled.
PointerTo(inner) == [err |-> inner.err, panic |-> inner.panic, v |-> <<inner.v>>]

\* unmarshalValue
unmarshalValue(obj, v, T, opts) ==
    IF obj.kind = "Panic" THEN [err |-> TRUE, panic |-> TRUE, v |-> v]
    ELSE IF HasHooks(T) THEN customUnmarshal(extractRawBytes(obj), v, T)
    ELSE CASE T.k = "ptr" ->
                PointerTo(unmarshalValue(obj, IF v = <<>> THEN ZeroValue(T.elem) ELSE v[1],
                                         T.elem, opts))
           [] T.k \in {"struct", "time"} -> unmarshalStruct(obj, v, T, opts)
           [] T.k \in {"slice", "bytes"} -> unmarshalSlice(obj, v, T, opts)
           [] T.k = "string" -> unmarshalString(obj, v)
           [] T.k = "int" -> unmarshalInt(obj, v, T)
           [] T.k = "uint" -> unmarshalUint(obj, v, T)
           [] T.k = "bool" -> unmarshalBool(obj, v)
           [] OTHER -> [err |-> TRUE, panic |-> FALSE, v |-> v]

\* The EXPLICIT branch of unmarshalStruct: the inner element of a wrapper
\* that holds exactly one, the element itself otherwise.
Unwrap(element) ==
    IF element.kind = "Structured" /\ Len(element.elements) = 1
    THEN element.elements[1]
    ELSE element

\* What one turn of the field loop of unmarshalStruct comes to: the field
\* value afterwards, whether the call fails, and how far the cursor moves.
FieldLeft(fv) == [err |-> FALSE, panic |-> FALSE, advance |-> 0, v |-> fv]

FieldRejected(fv) == [err |-> TRUE, panic |-> FALSE, advance |-> 0, v |-> fv]

FieldTaken(r) == [err |-> r.err, panic |-> r.panic, advance |-> 1, v |-> r.v]

\* FieldTakesElement without the comparison of tags.
FieldTakesElementUnseen(elements, elementIndex, parsed, opts) ==
    ~parsed.err /\ elementIndex < Len(elements)

\* Whether the turn of the field loop reaches unmarshalValue: the descriptor
\* parses, an element is left, and a tagged field finds its tag.
FieldTakesElement(elements, elementIndex, parsed, opts) ==
    /\ ~parsed.err
    /\ elementIndex < Len(elements)
    /\ parsed.info.HasTag /\ opts.UseContextTags =>
          /\ ObjTag(elements[elementIndex + 1]).Class = 2
          /\ ObjTag(elements[elementIndex + 1]).Number = parsed.info.Tag

\* The element handed to unmarshalValue.
ElementFor(element, info, opts) ==
    IF info.HasTag /\ opts.UseContextTags
    THEN IF info.Explicit THEN Unwrap(element) ELSE restoreTag(element, info.Type)
    ELSE element

\* FieldWithoutElement leaving every field, required or not.
FieldWithoutElementLeft(fv, parsed) ==
    IF parsed.err THEN FieldRejected(fv) ELSE FieldLeft(fv)

\* The turn of the field loop that does not reach unmarshalValue.
FieldWithoutElement(fv, parsed) ==
    IF parsed.err THEN FieldRejected(fv)
    ELSE IF parsed.info.Optional THEN FieldLeft(fv)
    ELSE FieldRejected(fv)

\* The field loop of unmarshalStruct over fields i.., elementIndex the cursor.
unmarshalFields(elements, v, T, i, elementIndex, opts) ==
    IF i > Len(T.fields) THEN [err |-> FALSE, panic |-> FALSE, v |-> v]
    ELSE IF ~T.fields[i].exported \/ T.fields[i].ann.raw = "skip"
    THEN unmarshalFieldsNext(elements, v, T, i, elementIndex, FieldLeft(v[i]), opts)
    ELSE IF ~FieldTakesElement(elements, elementIndex, FieldInfoOf(T.fields[i]), opts)
    THEN unmarshalFieldsNext(elements, v, T, i, elementIndex,
                             FieldWithoutElement(v[i], FieldInfoOf(T.fields[i])), opts)
    ELSE unmarshalFieldsNext(elements, v, T, i, elementIndex,
            FieldTaken(unmarshalValue(ElementFor(elements[elementIndex + 1],
                                                 FieldInfoOf(T.fields[i]).info, opts),
                                      v[i], T.fields[i].type, opts)), opts)

unmarshalFieldsNext(elements, v, T, i, elementIndex, step, opts) ==
    IF step.err THEN [err |-> TRUE, panic |-> step.panic, v |-> [v EXCEPT ![i] = step.v]]
    ELSE unmarshalFields(elements, [v EXCEPT ![i] = step.v], T, i + 1,
                         elementIndex + step.advance, opts)

\* unmarshalStruct
unmarshalStruct(obj, v, T, opts) ==
    IF T.k = "time" THEN unmarshalTime(obj, v)
    ELSE IF obj.kind # "Structured" THEN [err |-> TRUE, panic |-> FALSE, v |-> v]
    ELSE unmarshalFields(obj.elements, v, T, 1, 0, opts)

\* The element loop of unmarshalSlice; slice is the freshly made slice.
unmarshalElems(elements, slice, T, i, opts) ==
    IF i > Len(elements) THEN [err |-> FALSE, panic |-> FALSE, v |-> slice]
    ELSE unmarshalElemsNext(elements, slice, T, i,
                            unmarshalValue(elements[i], slice[i], T.elem, opts), opts)

unmarshalElemsNext(elements, slice, T, i, r, opts) ==
    IF r.err THEN [err |-> TRUE, panic |-> r.panic, v |-> slice]
    ELSE unmarshalElems(elements, [slice EXCEPT ![i] = r.v], T, i + 1, opts)

\* The last step of unmarshalSlice: the target is assigned only when every
\* element decoded.
SliceAssigned(r, v) == IF r.err THEN [err |-> TRUE, panic |-> r.panic, v |-> v] ELSE r

\* unmarshalSlice
unmarshalSlice(obj, v, T, opts) ==
    IF T.k = "bytes"
    THEN IF obj.kind = "OctetString" THEN [err |-> FALSE, panic |-> FALSE, v |-> obj.value]
         ELSE [err |-> TRUE, panic |-> FALSE, v |-> v]
    ELSE IF obj.kind # "Structured" THEN [err |-> TRUE, panic |-> FALSE, v |-> v]
    ELSE SliceAssigned(unmarshalElems(obj.elements,
                                      [i \in 1..Len(obj.elements) |-> ZeroValue(T.elem)],
                                      T, 1, opts), v)

\* The conversion step of UnmarshalWithOptions: [err, obj].
TopLevelObject(asn1Value, parsed) ==
    IF asn1Value.obj.tag.Constructed
    THEN [err |-> parsed.err /\ ~parsed.panic, obj |-> Parsed(parsed)]
    ELSE [err |-> FALSE, obj |-> convertToHighLevelObject(asn1Value.obj)]

\* The last step of UnmarshalWithOptions.
UnmarshalObject(top, v, T, opts) ==
    IF top.err THEN [err |-> TRUE, panic |-> FALSE, v |-> v]
    ELSE unmarshalValue(top.obj, v, T, opts)

\* The steps of UnmarshalWithOptions after DecodeTLV.
UnmarshalDecoded(asn1Value, v, T, opts) ==
    IF asn1Value.err THEN [err |-> TRUE, panic |-> FALSE, v |-> v]
    ELSE UnmarshalObject(
            TopLevelObject(asn1Value,
                           ParseElements(asn1Value.obj.value, 0,
                                         NewStructured(asn1Value.obj.tag))),
            v, T, opts)

\* UnmarshalWithOptions, called with a pointer to a location v of type T.
UnmarshalWithOptions(d, v, T, opts) == UnmarshalDecoded(DecodeTLV(d), v, T, opts)

\* Unmarshal
Unmarshal(d, v, T) == UnmarshalWithOptions(d, v, T, DefaultOptions)

-----------------------------------------------------------------------------
(* The codec chain: DecodeTLV on an arbitrary octet string, then Encode of *)
(* the decoded node.                                                       *)

\* The longest octet string handed to DecodeTLV.
MaxDataLen == 4

\* Octets that steer the decoder: tag octets (primitive, constructed,
\* context class, high-tag-number form), short and long length octets, the
\* indefinite length octet and an oversized long form.
CodecOctets == {0, 1, 2, 31, 48, 128, 129, 130, 133, 160}

CodecInputs == UNION {[1..n -> CodecOctets] : n \in 0..MaxDataLen}

InitCodec ==
    /\ pc = "codec.start"
    /\ data \in CodecInputs
    /\ decoded = None
    /\ reencoded = None
    /\ nesting = None /\ depth = None
    /\ encTag = None /\ encLen = None /\ encOut = None
    /\ num = None /\ intEnc = None /\ enumEnc = None /\ intDec = None
    /\ schema = None /\ record = None /\ wire = None /\ target = None
    /\ structElements = None /\ structField = None /\ structCursor = None
    /\ choice = None /\ choiceOut = None
    /\ node = None /\ buffer = None /\ calls = None

CallDecodeTLV ==
    /\ pc = "codec.start"
    /\ decoded' = DecodeTLV(data)
    /\ pc' = "codec.decoded"
    /\ UNCHANGED <<nodeVars, choiceVars, data, reencoded, nesting, depth, encoderVars, integerVars, marshalVars>>

CallValueEncode ==
    /\ pc = "codec.decoded"
    /\ ~decoded.err
    /\ reencoded' = ValueEncode(decoded.obj)
    /\ pc' = "codec.encoded"
    /\ UNCHANGED <<nodeVars, choiceVars, data, decoded, nesting, depth, encoderVars, integerVars, marshalVars>>

NextCodec == CallDecodeTLV \/ CallValueEncode

SpecCodec == InitCodec /\ [][NextCodec]_vars

-----------------------------------------------------------------------------
(* The encoder chain: EncodeTLV on a tag and a value of a given length.    *)

\* The longest value handed to EncodeTLV.
MaxValueLen == 258

\* Value lengths around the short form / long form boundary and around the
\* one-octet / two-octet long form boundary.
EncoderLengths == {l \in 0..MaxValueLen : l < 3 \/ l > 125}

\* Tag numbers around the one-octet limit and around the limits of one, two
\* and three base-128 octets.
EncoderTagNumbers == (0..33) \cup (126..129) \cup (16382..16385) \cup {2097151, 2097152}

EncoderTags == {NewTag(c, k, n) : c \in {0, 1, 2, 3}, k \in BOOLEAN, n \in EncoderTagNumbers}

\* A value of the given length; its content plays no part in the header.
FillerValue(length) == [i \in 1..length |-> (i % 256)]

InitEncoder ==
    /\ pc = "enc.start"
    /\ encTag \in EncoderTags
    /\ encLen \in EncoderLengths
    /\ encOut = None
    /\ data = None /\ decoded = None /\ reencoded = None
    /\ nesting = None /\ depth = None
    /\ num = None /\ intEnc = None /\ enumEnc = None /\ intDec = None
    /\ schema = None /\ record = None /\ wire = None /\ target = None
    /\ structElements = None /\ structField = None /\ structCursor = None
    /\ choice = None /\ choiceOut = None
    /\ node = None /\ buffer = None /\ calls = None

CallEncodeTLV ==
    /\ pc = "enc.start"
    /\ encOut' = EncodeTLV(encTag, FillerValue(encLen))
    /\ pc' = "enc.done"
    /\ UNCHANGED <<nodeVars, choiceVars, encTag, encLen, codecVars, integerVars, marshalVars>>

NextEncoder == CallEncodeTLV

SpecEncoder == InitEncoder /\ [][NextEncoder]_vars

-----------------------------------------------------------------------------
(* The integer chain: NewInteger(n).Encode, NewEnumerated(n).Encode and    *)
(* DecodeInteger of the INTEGER encoding.                                  *)

\* Every integer of magnitude up to MaxSmallInt is tried.
MaxSmallInt == 300

\* Around each power of two where the octet count changes, the integers
\* within IntWindow of it (and of its negative) are tried.
IntWindow == 3

OctetBoundaries == {128, 256, 32768, 65536}

PositiveBoundaries == {8388608, 16777216}

IntInputs ==
    (-MaxSmallInt..MaxSmallInt)
    \cup {(s * b) + d : s \in {-1, 1}, b \in OctetBoundaries, d \in -IntWindow..IntWindow}
    \cup {b + d : b \in PositiveBoundaries, d \in -IntWindow..IntWindow}

InitInteger ==
    /\ pc = "int.start"
    /\ num \in IntInputs
    /\ intEnc = None /\ enumEnc = None /\ intDec = None
    /\ data = None /\ decoded = None /\ reencoded = None
    /\ nesting = None /\ depth = None
    /\ encTag = None /\ encLen = None /\ encOut = None
    /\ schema = None /\ record = None /\ wire = None /\ target = None
    /\ structElements = None /\ structField = None /\ structCursor = None
    /\ choice = None /\ choiceOut = None
    /\ node = None /\ buffer = None /\ calls = None

CallIntegerEncode ==
    /\ pc = "int.start"
    /\ intEnc' = IntegerEncode(num)
    /\ pc' = "int.encoded"
    /\ UNCHANGED <<nodeVars, choiceVars, num, enumEnc, intDec, codecVars, encoderVars, marshalVars>>

CallEnumeratedEncode ==
    /\ pc = "int.encoded"
    /\ enumEnc' = EnumeratedEncode(num)
    /\ pc' = "int.enumerated"
    /\ UNCHANGED <<nodeVars, choiceVars, num, intEnc, intDec, codecVars, encoderVars, marshalVars>>

CallDecodeInteger ==
    /\ pc = "int.encoded"
    /\ ~intEnc.err
    /\ intDec' = DecodeInteger(intEnc.bytes)
    /\ pc' = "int.decoded"
    /\ UNCHANGED <<nodeVars, choiceVars, num, intEnc, enumEnc, codecVars, encoderVars, marshalVars>>

NextInteger == CallIntegerEncode \/ CallEnumeratedEncode \/ CallDecodeInteger

SpecInteger == InitInteger /\ [][NextInteger]_vars

-----------------------------------------------------------------------------
(* The marshal chain: a record of some annotated type is marshalled, and   *)
(* the octets are unmarshalled into a fresh record of the same type.       *)
(* Three families of types are drawn:                                      *)
(*   records of integer fields, required or optional, tagged or not;       *)
(*   tagging records, holding one value three times: untagged, IMPLICIT    *)
(*   and EXPLICIT under the same tag number;                               *)
(*   list records, holding one SEQUENCE OF field.                          *)

MaxFields == 3
MaxSliceLen == 3
MaxTagNumber == 200

Int64 == IntType(64)

\* PhoneNumber of the slice tests: struct { Digits string } with both hooks.
PhoneNumber == StructType("phone", <<Field("Digits", NoAnn, StringType)>>)

FieldShapes == {"required", "requiredTagged", "pointer", "optional",
                "optionalTagged", "optionalExplicit"}

\* Fields that hold a time.Time: a UTCTime, a GeneralizedTime under an
\* IMPLICIT tag, and an optional UTCTime under an EXPLICIT tag.
TimeShapes == {"time", "timeTagged", "optionalTime"}

PointerShapes == {"pointer", "optional", "optionalTagged", "optionalExplicit",
                  "optionalTime"}

\* The field at position i of a record of integer and time fields; a tagged
\* field carries the tag number i - 1.
ShapeField(shape, i) ==
    CASE shape = "required" -> Field(i, Desc("integer", <<>>), Int64)
      [] shape = "requiredTagged" -> Field(i, Desc("integer", <<OptTag(i - 1)>>), Int64)
      [] shape = "pointer" -> Field(i, Desc("integer", <<>>), PtrType(Int64))
      [] shape = "optional" -> Field(i, Desc("integer", <<OptOptional>>), PtrType(Int64))
      [] shape = "optionalTagged" ->
            Field(i, Desc("integer", <<OptOptional, OptTag(i - 1)>>), PtrType(Int64))
      [] shape = "optionalExplicit" ->
            Field(i, Desc("integer", <<OptOptional, OptTag(i - 1), OptExplicit>>),
                  PtrType(Int64))
      [] shape = "time" -> Field(i, Desc("utctime", <<>>), TimeType)
      [] shape = "timeTagged" ->
            Field(i, Desc("generalizedtime", <<OptTag(i - 1)>>), TimeType)
      [] shape = "optionalTime" ->
            Field(i, Desc("utctime", <<OptOptional, OptTag(i - 1), OptExplicit>>),
                  PtrType(TimeType))

RecordSchema(shapes) ==
    StructType("none", [i \in 1..Len(shapes) |-> ShapeField(shapes[i], i)])

IntValues == {-1, 300}

RecordValue(shapes, vals, present) ==
    [i \in 1..Len(shapes) |->
        IF shapes[i] \in PointerShapes
        THEN IF present[i] THEN <<vals[i]>> ELSE <<>>
        ELSE vals[i]]

\* The contents of a tagging record, by the name of its ASN.1 type.
Inner == StructType("none", <<Field("A", Desc("integer", <<>>), Int64),
                              Field("B", Desc("boolean", <<OptTag(0)>>), BoolType)>>)

TaggingKinds == {"integer", "boolean", "octetstring", "utf8string", "utctime",
                 "generalizedtime", "struct", "pointer", "slice"}

KindASN1Type(kind) ==
    IF kind \in {"struct", "pointer", "slice"} THEN "sequence" ELSE kind

KindType(kind) ==
    CASE kind = "integer" -> Int64
      [] kind = "boolean" -> BoolType
      [] kind = "octetstring" -> BytesType
      [] kind = "utf8string" -> StringType
      [] kind \in {"utctime", "generalizedtime"} -> TimeType
      [] kind = "struct" -> Inner
      [] kind = "pointer" -> PtrType(Inner)
      [] kind = "slice" -> SliceType(Int64)

\* The first and the last second a UTCTime can name, and a time between.
UTCTimes == {Date(1950, 1, 1, 0, 0, 0), Date(2023, 12, 25, 10, 30, 45),
             Date(2049, 12, 31, 23, 59, 59)}

\* Times on both sides of the years a UTCTime can name, and a time between.
GeneralizedTimes == {Date(1949, 12, 31, 23, 59, 59), Date(2023, 12, 25, 10, 30, 45),
                     Date(2050, 1, 1, 0, 0, 0)}

KindValues(kind) ==
    CASE kind = "integer" -> {0, 127, 128, -129, 65536}
      [] kind = "boolean" -> BOOLEAN
      [] kind = "octetstring" -> {<<>>, <<0>>, <<4, 1, 255>>}
      [] kind = "utf8string" -> {<<>>, <<97>>, <<97, 98>>}
      [] kind = "utctime" -> UTCTimes
      [] kind = "generalizedtime" -> GeneralizedTimes
      [] kind = "struct" -> {<<a, b>> : a \in {0, 300}, b \in BOOLEAN}
      [] kind = "pointer" -> {<<<<a, b>>>> : a \in {0, 300}, b \in BOOLEAN}
      [] kind = "slice" ->
            UNION {[1..n -> {1, 300}] : n \in 0..MaxSliceLen}

TagNumbers == {0, 1, 30, 31, 127, 128, MaxTagNumber}

\* struct { Plain T `ty`; Implicit T `ty,tag:N`; Explicit T `ty,tag:N,explicit` }
TaggingSchema(kind, n) ==
    StructType("none",
        <<Field("Plain", Desc(KindASN1Type(kind), <<>>), KindType(kind)),
          Field("Implicit", Desc(KindASN1Type(kind), <<OptTag(n)>>), KindType(kind)),
          Field("Explicit", Desc(KindASN1Type(kind), <<OptTag(n), OptExplicit>>),
                KindType(kind))>>)

ListKinds == {"Message", "PointerMessage", "Numbers"}

\* Message, PointerMessage of the slice tests, and a list of plain integers.
ListSchema(kind) ==
    CASE kind = "Message" ->
            StructType("none", <<Field("Numbers", Desc("sequence", <<OptTag(0)>>),
                                       SliceType(PhoneNumber))>>)
      [] kind = "PointerMessage" ->
            StructType("none", <<Field("Numbers", Desc("sequence", <<>>),
                                       SliceType(PtrType(PhoneNumber)))>>)
      [] kind = "Numbers" ->
            StructType("none", <<Field("Numbers", Desc("sequence", <<>>),
                                       SliceType(Int64))>>)

DigitStrings == {<<>>, <<49>>, <<49, 50>>}

ListElements(kind) ==
    CASE kind = "Message" -> {<<d>> : d \in DigitStrings}
      [] kind = "PointerMessage" -> {<<<<d>>>> : d \in DigitStrings}
      [] kind = "Numbers" -> {0, 300}

ListValues(kind) ==
    {<<l>> : l \in UNION {[1..n -> ListElements(kind)] : n \in 0..MaxSliceLen}}

\* A field of a struct that carries hooks: unexported, without annotation.
Hidden(name, type) == [Field(name, NoAnn, type) EXCEPT !.exported = FALSE]

\* CustomBytes and CustomInteger of the custom marshaler tests.
CustomBytes == StructType("bytes", <<Hidden("data", BytesType)>>)

CustomInteger == StructType("int", <<Hidden("value", Int64)>>)

HookedTypes == {"phone", "bytes", "int"}

HookedType(hooks) ==
    CASE hooks = "phone" -> PhoneNumber
      [] hooks = "bytes" -> CustomBytes
      [] hooks = "int" -> CustomInteger

\* The values of a type with hooks: the tuple of its one field.
HookedValues(hooks) ==
    CASE hooks = "phone" -> {<<d>> : d \in DigitStrings}
      [] hooks = "bytes" -> {<<d>> : d \in {<<>>, <<1>>, <<255, 0>>}}
      [] hooks = "int" -> {<<x>> : x \in {0, 1, 127, 128, 255, 256, 65408}}

\* The descriptor types wrapCustomMarshaledBytes tells apart.
HookedASN1Types == {"octetstring", "integer", "utf8string", "printablestring",
                    "ia5string", "sequence", "boolean", "bitstring"}

HookedTaggings == {"untagged", "implicit", "explicit"}

HookedTagNumber == 5

HookedShapes == {"value", "pointer", "optional"}

\* struct { Custom T `ty[,optional][,tag:5][,explicit]` }, T the type with
\* hooks or, for the shapes pointer and optional, a pointer to it.
HookedSchema(hooks, asn1Type, tagging, shape) ==
    StructType("none",
        <<Field("Custom",
                Desc(asn1Type,
                     (IF shape = "optional" THEN <<OptOptional>> ELSE <<>>)
                     \o (IF tagging = "untagged" THEN <<>> ELSE <<OptTag(HookedTagNumber)>>)
                     \o (IF tagging = "explicit" THEN <<OptExplicit>> ELSE <<>>)),
                IF shape = "value" THEN HookedType(hooks)
                ELSE PtrType(HookedType(hooks)))>>)

\* The values of an omitempty field: those of its kind, and nil for a pointer.
OmitValues(kind) == IF kind = "pointer" THEN KindValues(kind) \cup {<<>>} ELSE KindValues(kind)

OmitTaggings == {"untagged", "implicit"}

\* struct { ID int64 `integer`; Description T `ty,omitempty[,tag:0]`;
\*          Name string `utf8string` }
OmitSchema(kind, tagging) ==
    StructType("none",
        <<Field("ID", Desc("integer", <<>>), Int64),
          Field("Description",
                Desc(KindASN1Type(kind),
                     <<OptOmitempty>>
                     \o (IF tagging = "untagged" THEN <<>> ELSE <<OptTag(0)>>)),
                KindType(kind)),
          Field("Name", Desc("utf8string", <<>>), StringType)>>)

\* The four fields of TestStruct of the marshal tests, by ASN.1 type.
LayoutKinds == <<"integer", "utf8string", "boolean", "octetstring">>

\* How a field of a layout record is declared: as in TestStruct, skipped
\* with "-", as an optional pointer (nil or set), with omitempty, or under a
\* context tag.
LayoutDresses == {"plain", "skipped", "optionalNil", "optionalSet", "omitempty",
                  "implicit", "explicit"}

\* The field at position i of a layout record, of the kind and dress given;
\* a tagged field carries the tag number i - 1.
LayoutField(kind, dress, i) ==
    CASE dress = "plain" -> Field(i, Desc(kind, <<>>), KindType(kind))
      [] dress = "skipped" -> Field(i, SkipAnn, KindType(kind))
      [] dress \in {"optionalNil", "optionalSet"} ->
            Field(i, Desc(kind, <<OptOptional>>), PtrType(KindType(kind)))
      [] dress = "omitempty" -> Field(i, Desc(kind, <<OptOmitempty>>), KindType(kind))
      [] dress = "implicit" -> Field(i, Desc(kind, <<OptTag(i - 1)>>), KindType(kind))
      [] dress = "explicit" ->
            Field(i, Desc(kind, <<OptTag(i - 1), OptExplicit>>), KindType(kind))

\* The fields of TestStruct in declaration order or in the opposite order.
LayoutSchema(reversed, dresses) ==
    StructType("none",
        [i \in 1..Len(LayoutKinds) |->
            LayoutField(LayoutKinds[IF reversed THEN Len(LayoutKinds) + 1 - i ELSE i],
                        dresses[i], i)])

\* Two values of each kind; the second string and the second boolean are
\* the zero values of their types.
LayoutValue(kind, second) ==
    CASE kind = "integer" -> IF second THEN 300 ELSE 42
      [] kind = "utf8string" -> IF second THEN <<>> ELSE <<116, 101, 115, 116>>
      [] kind = "boolean" -> ~second
      [] kind = "octetstring" -> IF second THEN <<0, 255>> ELSE <<100, 97, 116, 97>>

LayoutRecord(reversed, dresses, second) ==
    [i \in 1..Len(LayoutKinds) |->
        LET x == LayoutValue(LayoutKinds[IF reversed THEN Len(LayoutKinds) + 1 - i ELSE i],
                             second)
        IN  CASE dresses[i] = "optionalNil" -> <<>>
              [] dresses[i] = "optionalSet" -> <<x>>
              [] OTHER -> x]

\* MessageChoice of the README and of the choice demo, without its time
\* alternative and with a record alternative; the alternatives are declared
\* optional in the README and not in the demo.
ChoiceAlternatives == <<"boolean", "integer", "utf8string", "octetstring", "struct">>

MessageChoice(optional) ==
    StructType("none",
        [i \in 1..Len(ChoiceAlternatives) |->
            Field(i,
                  Desc(KindASN1Type(ChoiceAlternatives[i]),
                       (IF optional THEN <<OptOptional>> ELSE <<>>) \o <<OptTag(i - 1)>>),
                  PtrType(KindType(ChoiceAlternatives[i])))])

\* How the record that holds the choice declares it.
ChoiceHolders == {"field", "taggedField", "pointerField"}

\* struct { ID int64 `integer`; Content MessageChoice `choice` }, the
\* choice also under a tag of its own, and as an optional pointer.
ChoiceSchema(holder, optional) ==
    StructType("none",
        <<Field("ID", Desc("integer", <<>>), Int64),
          CASE holder = "field" ->
                  Field("Content", Desc("choice", <<>>), MessageChoice(optional))
            [] holder = "taggedField" ->
                  Field("Content", Desc("choice", <<OptTag(HookedTagNumber)>>),
                        MessageChoice(optional))
            [] holder = "pointerField" ->
                  Field("Content", Desc("choice", <<OptOptional, OptTag(2)>>),
                        PtrType(MessageChoice(optional)))>>)

\* The choice with alternative i set to x and every other alternative nil.
ChoiceValue(i, x) == [j \in 1..Len(ChoiceAlternatives) |-> IF j = i THEN <<x>> ELSE <<>>]

IdleOutsideMarshal ==
    /\ data = None /\ decoded = None /\ reencoded = None
    /\ nesting = None /\ depth = None
    /\ encTag = None /\ encLen = None /\ encOut = None
    /\ num = None /\ intEnc = None /\ enumEnc = None /\ intDec = None
    /\ structElements = None /\ structField = None /\ structCursor = None
    /\ choice = None /\ choiceOut = None
    /\ node = None /\ buffer = None /\ calls = None

InitRecord ==
    /\ pc = "m.start"
    /\ \E n \in 1..MaxFields :
         \E shapes \in [1..n -> FieldShapes], vals \in [1..n -> IntValues],
            present \in [1..n -> BOOLEAN] :
              /\ \A i \in 1..n : shapes[i] \notin PointerShapes => present[i]
              /\ schema = RecordSchema(shapes)
              /\ record = RecordValue(shapes, vals, present)
    /\ wire = None /\ target = None
    /\ IdleOutsideMarshal

InitTagging ==
    /\ pc = "m.start"
    /\ \E kind \in TaggingKinds, n \in TagNumbers :
         /\ schema = TaggingSchema(kind, n)
         /\ \E x \in KindValues(kind) : record = <<x, x, x>>
    /\ wire = None /\ target = None
    /\ IdleOutsideMarshal

InitList ==
    /\ pc = "m.start"
    /\ \E kind \in ListKinds :
         /\ schema = ListSchema(kind)
         /\ record \in ListValues(kind)
    /\ wire = None /\ target = None
    /\ IdleOutsideMarshal

InitHooked ==
    /\ pc = "m.start"
    /\ \E hooks \in HookedTypes, asn1Type \in HookedASN1Types,
          tagging \in HookedTaggings, shape \in HookedShapes :
         /\ schema = HookedSchema(hooks, asn1Type, tagging, shape)
         /\ \E x \in HookedValues(hooks) :
              record = IF shape = "value" THEN <<x>> ELSE <<<<x>>>>
    /\ wire = None /\ target = None
    /\ IdleOutsideMarshal

InitOmit ==
    /\ pc = "m.start"
    /\ \E kind \in TaggingKinds, tagging \in OmitTaggings :
         /\ schema = OmitSchema(kind, tagging)
         /\ \E id \in IntValues, x \in OmitValues(kind), name \in DigitStrings :
              record = <<id, x, name>>
    /\ wire = None /\ target = None
    /\ IdleOutsideMarshal

InitLayout ==
    /\ pc = "m.start"
    /\ \E reversed \in BOOLEAN, second \in BOOLEAN,
          dresses \in [1..Len(LayoutKinds) -> LayoutDresses] :
         /\ schema = LayoutSchema(reversed, dresses)
         /\ record = LayoutRecord(reversed, dresses, second)
    /\ wire = None /\ target = None
    /\ IdleOutsideMarshal

InitChoice ==
    /\ pc = "m.start"
    /\ \E holder \in ChoiceHolders, optional \in BOOLEAN :
         /\ schema = ChoiceSchema(holder, optional)
         /\ \E id \in IntValues, i \in 1..Len(ChoiceAlternatives) :
              \E x \in KindValues(ChoiceAlternatives[i]) :
                 record = <<id, IF holder = "pointerField" THEN <<ChoiceValue(i, x)>>
                                ELSE ChoiceValue(i, x)>>
    /\ wire = None /\ target = None
    /\ IdleOutsideMarshal

CallMarshal ==
    /\ pc = "m.start"
    /\ wire' = Marshal(record, schema)
    /\ pc' = "m.marshalled"
    /\ UNCHANGED <<nodeVars, choiceVars, schema, record, target, loopVars, codecVars, encoderVars, integerVars>>

CallUnmarshal ==
    /\ pc = "m.marshalled"
    /\ ~wire.err
    /\ target' = Unmarshal(wire.bytes, ZeroValue(schema), schema)
    /\ pc' = "m.unmarshalled"
    /\ UNCHANGED <<nodeVars, choiceVars, schema, record, wire, loopVars, codecVars, encoderVars, integerVars>>

NextMarshal == CallMarshal \/ CallUnmarshal

-----------------------------------------------------------------------------
(* The receive chain: Unmarshal of a SEQUENCE that another party built,    *)
(* into a record of integer and time fields, the field loop of             *)
(* unmarshalStruct one turn at a time.                                     *)

\* The most fields of a receiving record, the most children of the SEQUENCE
\* received.
MaxReceived == 2
MaxChildren == 2

\* "230101120000Z" and "20230101120000Z"
UTCLiteral == <<50, 51, 48, 49, 48, 49, 49, 50, 48, 48, 48, 48, 90>>

GeneralizedLiteral == <<50, 48>> \o UTCLiteral

\* The fields of a receiving record.
ReceivedShapes == FieldShapes \cup TimeShapes

\* The records of n fields: a time field, if there is one, is the first.
ReceivedRecords(n) ==
    {shapes \in [1..n -> ReceivedShapes] : \A i \in 2..n : shapes[i] \notin TimeShapes}

\* The INTEGER children: a universal INTEGER, the INTEGER under the IMPLICIT
\* tags [0] and [1], and under the EXPLICIT tag [0].
IntegerTLVs == {<<2, 1, 5>>, <<128, 1, 5>>, <<129, 1, 5>>, <<160, 3, 2, 1, 5>>}

\* The time children: a universal UTCTime, a GeneralizedTime under the
\* IMPLICIT tag [0], and a UTCTime under the EXPLICIT tag [0].
TimeTLVs == {<<23, 13>> \o UTCLiteral, <<128, 15>> \o GeneralizedLiteral,
             <<160, 15, 23, 13>> \o UTCLiteral}

ChildTLVs == IntegerTLVs \cup TimeTLVs

\* The SEQUENCEs of n children: at most one of them is a time.
ReceivedChildren(n) ==
    {tlvs \in [1..n -> ChildTLVs] :
        \A i, j \in 1..n : tlvs[i] \in TimeTLVs /\ tlvs[j] \in TimeTLVs => i = j}

RECURSIVE Flatten(_)
Flatten(seqs) == IF seqs = <<>> THEN <<>> ELSE Head(seqs) \o Flatten(Tail(seqs))

\* The SEQUENCE of the given children, encoded.
ReceivedSequence(tlvs) ==
    Marshalled(EncodeTLV(NewUniversalTag(TagSequence, TRUE), Flatten(tlvs)))

InitReceive ==
    /\ pc = "r.start"
    /\ \E n \in 1..MaxReceived : \E shapes \in ReceivedRecords(n) :
         schema = RecordSchema(shapes)
    /\ \E n \in 0..MaxChildren : \E tlvs \in ReceivedChildren(n) :
         wire = ReceivedSequence(tlvs)
    /\ record = None /\ target = None
    /\ IdleOutsideMarshal

\* One turn of the field loop of unmarshalStruct, for the field f holding fv.
FieldTurn(elems, fv, f, cursor, opts) ==
    IF ~f.exported \/ f.ann.raw = "skip" THEN FieldLeft(fv)
    ELSE IF ~FieldTakesElement(elems, cursor, FieldInfoOf(f), opts)
    THEN FieldWithoutElement(fv, FieldInfoOf(f))
    ELSE FieldTaken(unmarshalValue(ElementFor(elems[cursor + 1], FieldInfoOf(f).info, opts),
                                   fv, f.type, opts))

\* UnmarshalWithOptions up to the field loop of unmarshalStruct.
CallUnmarshalTop ==
    /\ pc = "r.start"
    /\ LET asn1Value == DecodeTLV(wire.bytes)
           top == TopLevelObject(asn1Value,
                                 ParseElements(asn1Value.obj.value, 0,
                                               NewStructured(asn1Value.obj.tag)))
       IN  IF asn1Value.err \/ top.err \/ top.obj.kind # "Structured"
           THEN /\ target' = Unmarshal(wire.bytes, ZeroValue(schema), schema)
                /\ pc' = "r.done"
                /\ UNCHANGED loopVars
           ELSE /\ target' = [err |-> FALSE, panic |-> FALSE, v |-> ZeroValue(schema)]
                /\ structElements' = top.obj.elements
                /\ structField' = 1
                /\ structCursor' = 0
                /\ pc' = "r.fields"
    /\ UNCHANGED <<nodeVars, choiceVars, schema, record, wire, codecVars, encoderVars, integerVars>>

\* The state after a turn of the field loop that came to step.
FieldTurned(step) ==
    /\ target' = [err |-> step.err, panic |-> step.panic,
                  v |-> [target.v EXCEPT ![structField] = step.v]]
    /\ structCursor' = structCursor + step.advance
    /\ structField' = IF step.err THEN structField ELSE structField + 1
    /\ pc' = IF step.err THEN "r.done" ELSE "r.fields"

\* One turn of the field loop.  The cursor moves before unmarshalValue is
\* called, so it has moved even when that call fails.
StepField ==
    /\ pc = "r.fields"
    /\ structField <= Len(schema.fields)
    /\ FieldTurned(FieldTurn(structElements, target.v[structField],
                             schema.fields[structField], structCursor, DefaultOptions))
    /\ UNCHANGED <<nodeVars, choiceVars, schema, record, wire, structElements,
                   codecVars, encoderVars, integerVars>>

\* The return of unmarshalStruct after the last field.
ReturnFromStruct ==
    /\ pc = "r.fields"
    /\ structField > Len(schema.fields)
    /\ pc' = "r.done"
    /\ UNCHANGED <<nodeVars, choiceVars, marshalVars, codecVars, encoderVars, integerVars>>

NextReceive == CallUnmarshalTop \/ StepField \/ ReturnFromStruct

SpecReceive == InitReceive /\ [][NextReceive]_vars

\* The sending side of an exchange: a record of up to MaxReceived integer
\* and time fields, any pointer field nil or set.
InitSend ==
    /\ pc = "m.start"
    /\ \E n \in 1..MaxReceived :
         \E shapes \in ReceivedRecords(n), present \in [1..n -> BOOLEAN] :
              /\ \A i \in 1..n : shapes[i] \notin PointerShapes => present[i]
              /\ schema = RecordSchema(shapes)
              /\ record = RecordValue(shapes,
                                      [i \in 1..n |->
                                          IF shapes[i] \in TimeShapes
                                          THEN Date(2023, 1, 1, 12, 0, 0)
                                          ELSE 300],
                                      present)
    /\ wire = None /\ target = None
    /\ IdleOutsideMarshal

\* Both sides of an exchange.
SpecExchange == (InitSend \/ InitReceive) /\ [][NextMarshal \/ NextReceive]_vars

-----------------------------------------------------------------------------
(* The choice chain: an ASN1Choice is made, its value and its identifier   *)
(* are set any number of times, and Encode and Tag are called on it.       *)

\* NewChoice
NewChoice(value) == [kind |-> "Choice", value |-> value, choiceID |-> ""]

\* NewChoiceWithID
NewChoiceWithID(value, choiceID) ==
    [kind |-> "Choice", value |-> value, choiceID |-> choiceID]

\* (*ASN1Choice).SetValue
SetValue(c, value) == [c EXCEPT !.value = value]

\* (*ASN1Choice).SetChoiceID
SetChoiceID(c, choiceID) == [c EXCEPT !.choiceID = choiceID]

\* The identifiers given to a choice.
ChoiceIDs == {"", "boolean_choice", "integer_choice", "alternative_0"}

InitASN1Choice ==
    /\ pc = "c.start"
    /\ choice = None /\ choiceOut = None
    /\ node = None /\ buffer = None /\ calls = None
    /\ schema = None /\ record = None /\ wire = None /\ target = None
    /\ structElements = None /\ structField = None /\ structCursor = None
    /\ data = None /\ decoded = None /\ reencoded = None
    /\ nesting = None /\ depth = None
    /\ encTag = None /\ encLen = None /\ encOut = None
    /\ num = None /\ intEnc = None /\ enumEnc = None /\ intDec = None

\* The time a choice is given: 2023-12-25 10:30:45 UTC.
ChoiceTime == Date(2023, 12, 25, 10, 30, 45)

\* The action A for every value an ASN1Choice is given: nil, a BOOLEAN, an
\* INTEGER, a string, an OCTET STRING, a UTCTime, a GeneralizedTime, a
\* SEQUENCE.
WithChoiceValue(A(_)) ==
    \/ A(Nil)
    \/ \E b \in BOOLEAN : A(NewBoolean(b))
    \/ \E n \in {0, 42, 128, -1} : A(NewInteger(n))
    \/ \E t \in DigitStrings : A(NewUTF8String(t))
    \/ \E t \in DigitStrings : A(NewOctetString(t))
    \/ A(NewUTCTime(ChoiceTime))
    \/ A(NewGeneralizedTime(ChoiceTime))
    \/ \E n \in {0, 42} : A(StructuredAdd(NewSequence, NewInteger(n)))

ChoiceIdle == UNCHANGED <<nodeVars, codecVars, encoderVars, integerVars, marshalVars>>

CallNewChoice ==
    /\ pc = "c.start"
    /\ WithChoiceValue(LAMBDA value : choice' = NewChoice(value))
    /\ choiceOut' = None
    /\ pc' = "c.made"
    /\ ChoiceIdle

CallNewChoiceWithID ==
    /\ pc = "c.start"
    /\ \E choiceID \in ChoiceIDs :
         WithChoiceValue(LAMBDA value : choice' = NewChoiceWithID(value, choiceID))
    /\ choiceOut' = None
    /\ pc' = "c.made"
    /\ ChoiceIdle

CallSetValue ==
    /\ pc = "c.made"
    /\ WithChoiceValue(LAMBDA value : choice' = SetValue(choice, value))
    /\ choiceOut' = None
    /\ UNCHANGED pc
    /\ ChoiceIdle

CallSetChoiceID ==
    /\ pc = "c.made"
    /\ \E choiceID \in ChoiceIDs : choice' = SetChoiceID(choice, choiceID)
    /\ choiceOut' = None
    /\ UNCHANGED pc
    /\ ChoiceIdle

\* Encode and Tag, called one after the other.
CallChoiceEncode ==
    /\ pc = "c.made"
    /\ choiceOut = None
    /\ choiceOut' = [encoded |-> ChoiceEncode(choice), tag |-> ChoiceTag(choice)]
    /\ UNCHANGED <<pc, choice>>
    /\ ChoiceIdle

NextASN1Choice ==
    \/ CallNewChoice
    \/ CallNewChoiceWithID
    \/ CallSetValue
    \/ CallSetChoiceID
    \/ CallChoiceEncode

SpecASN1Choice == InitASN1Choice /\ [][NextASN1Choice]_vars

-----------------------------------------------------------------------------
(* The nesting chain: SEQUENCEs are wrapped around a value, one inside the *)
(* other, and Unmarshal converts the octets; the recursion of              *)
(* convertToHighLevelObject is taken one call at a time.                   *)

\* The most SEQUENCEs wrapped around the innermost value.
MaxNesting == 66

\* The innermost values: an INTEGER, an empty SEQUENCE.
InnermostTLVs == {<<2, 1, 5>>, <<48, 0>>}

NestingIdle ==
    UNCHANGED <<nodeVars, choiceVars, reencoded, encoderVars, integerVars, marshalVars>>

InitNesting ==
    /\ pc = "n.start"
    /\ data \in InnermostTLVs
    /\ nesting = 0
    /\ depth = 0
    /\ decoded = None /\ reencoded = None
    /\ encTag = None /\ encLen = None /\ encOut = None
    /\ num = None /\ intEnc = None /\ enumEnc = None /\ intDec = None
    /\ schema = None /\ record = None /\ wire = None /\ target = None
    /\ structElements = None /\ structField = None /\ structCursor = None
    /\ choice = None /\ choiceOut = None
    /\ node = None /\ buffer = None /\ calls = None

\* The sender puts the octets inside one more SEQUENCE.
WrapInSequence ==
    /\ pc = "n.start"
    /\ nesting < MaxNesting
    /\ data' = EncodeTLV(NewUniversalTag(TagSequence, TRUE), data).bytes
    /\ nesting' = nesting + 1
    /\ UNCHANGED <<pc, decoded, depth>>
    /\ NestingIdle

\* UnmarshalWithOptions: DecodeTLV of the input.  A primitive value is
\* handed to convertToHighLevelObject at once; the elements of a constructed
\* one are, in the loop.
CallUnmarshalNested ==
    /\ pc = "n.start"
    /\ decoded' = DecodeTLV(data)
    /\ depth' = IF ~DecodeTLV(data).err /\ ~DecodeTLV(data).obj.tag.Constructed
                THEN depth + 1 ELSE depth
    /\ pc' = "n.converting"
    /\ UNCHANGED <<data, nesting>>
    /\ NestingIdle

\* The element loop of UnmarshalWithOptions and of convertToHighLevelObject
\* at its first element: DecodeTLV of the content, then the call of
\* convertToHighLevelObject on the element.
NextLevel ==
    /\ pc = "n.converting"
    /\ ~decoded.err
    /\ decoded.obj.tag.Constructed
    /\ Len(decoded.obj.value) > 0
    /\ ~DecodeTLV(decoded.obj.value).err
    /\ decoded' = DecodeTLV(decoded.obj.value)
    /\ depth' = depth + 1
    /\ UNCHANGED <<pc, data, nesting>>
    /\ NestingIdle

\* The innermost call returns: a primitive value, or a constructed one that
\* holds no element.
Converted ==
    /\ pc = "n.converting"
    /\ \/ decoded.err
       \/ ~decoded.obj.tag.Constructed
       \/ Len(decoded.obj.value) = 0
    /\ pc' = "n.converted"
    /\ UNCHANGED <<data, decoded, nesting, depth>>
    /\ NestingIdle

NextNesting == WrapInSequence \/ CallUnmarshalNested \/ NextLevel \/ Converted

SpecNesting == InitNesting /\ [][NextNesting]_vars

-----------------------------------------------------------------------------
(* The content chain: octets whose TLV framing is sound and whose content  *)
(* may break the invariant of its type, handed to a typed Decode function  *)
(* or to Unmarshal.                                                        *)

\* The longest string content.
MaxContent == 2

\* "A", "*", a continuation octet alone, the two octets of U+00E9, and an
\* octet no UTF-8 text holds.
StringOctets == {65, 42, 128, 195, 169, 255}

StringContents == UNION {[1..n -> StringOctets] : n \in 0..MaxContent}

\* A space, U+00A0 and U+2028.
LiteralSpaces == {<<32>>, <<194, 160>>, <<226, 128, 168>>}

\* A literal cut short, with one character replaced by "x", "-" or a space,
\* or with white space in front or behind.
LiteralsOf(base) ==
    {SubSeq(base, 1, n) : n \in 0..Len(base)}
    \cup {[base EXCEPT ![k] = c] : k \in 1..Len(base), c \in {120, 45, 32}}
    \cup {space \o SubSeq(base, 1, n) : n \in 0..Len(base), space \in LiteralSpaces}
    \cup {SubSeq(base, 1, n) \o space : n \in 0..Len(base), space \in LiteralSpaces}

TimeContents == LiteralsOf(UTCLiteral) \cup LiteralsOf(GeneralizedLiteral)

ContentTags == {TagUTF8String, TagPrintableString, TagIA5String,
                TagUTCTime, TagGeneralizedTime}

ContentTLV(number, content) == EncodeTLV(NewUniversalTag(number, FALSE), content).bytes

ContentTLVs ==
    {ContentTLV(number, content) :
        number \in ContentTags, content \in StringContents \cup TimeContents}

\* The targets of Unmarshal: a string, and a struct with one string field.
ContentTargets ==
    {StringType,
     StructType("none", <<Field("Title", Desc("utf8string", <<>>), StringType)>>)}

Decoders == {"DecodeUTF8String", "DecodePrintableString", "DecodeIA5String",
             "DecodeUTCTime", "DecodeGeneralizedTime"}

TypedDecode(fn, octets) ==
    CASE fn = "DecodeUTF8String" -> DecodeUTF8String(octets)
      [] fn = "DecodePrintableString" -> DecodePrintableString(octets)
      [] fn = "DecodeIA5String" -> DecodeIA5String(octets)
      [] fn = "DecodeUTCTime" -> DecodeUTCTime(octets)
      [] fn = "DecodeGeneralizedTime" -> DecodeGeneralizedTime(octets)

ContentIdle ==
    UNCHANGED <<nodeVars, choiceVars, reencoded, nesting, depth, encoderVars, integerVars,
                record, wire, loopVars>>

InitContent ==
    /\ pc = "t.start"
    /\ \E tlv \in ContentTLVs :
          data \in {tlv, EncodeTLV(NewUniversalTag(TagSequence, TRUE), tlv).bytes}
    /\ schema \in ContentTargets
    /\ decoded = None /\ reencoded = None
    /\ nesting = None /\ depth = None
    /\ encTag = None /\ encLen = None /\ encOut = None
    /\ num = None /\ intEnc = None /\ enumEnc = None /\ intDec = None
    /\ record = None /\ wire = None /\ target = None
    /\ structElements = None /\ structField = None /\ structCursor = None
    /\ choice = None /\ choiceOut = None
    /\ node = None /\ buffer = None /\ calls = None

\* A call of one of the typed Decode functions on the octets.
CallTypedDecode ==
    /\ pc = "t.start"
    /\ \E fn \in Decoders :
          decoded' = [fn |-> fn] @@ TypedDecode(fn, data)
    /\ pc' = "t.decoded"
    /\ UNCHANGED <<data, schema, target>>
    /\ ContentIdle

\* A call of Unmarshal on the octets, with a pointer to a fresh target.
CallUnmarshalContent ==
    /\ pc = "t.start"
    /\ target' = Unmarshal(data, ZeroValue(schema), schema)
    /\ pc' = "t.unmarshalled"
    /\ UNCHANGED <<data, schema, decoded>>
    /\ ContentIdle

NextContent == CallTypedDecode \/ CallUnmarshalContent

SpecContent == InitContent /\ [][NextContent]_vars

-----------------------------------------------------------------------------
(* The width chain: an INTEGER, alone or as the one element of a SEQUENCE, *)
(* handed to Unmarshal with an integer target of some width.               *)

\* The values around the ends of the 8-bit and 16-bit ranges.
WidthValues == {-65536, -32769, -32768, -257, -256, -129, -128, -1, 0, 1,
                127, 128, 255, 256, 300, 32767, 32768, 65535, 65536}

Widths == {8, 16, 32, 64}

IntegerTypes == {IntType(bits) : bits \in Widths} \cup {UintType(bits) : bits \in Widths}

\* The target itself, or a struct whose one field it is.
WidthTargets ==
    IntegerTypes
    \cup {StructType("none", <<Field("Count", Desc("integer", <<>>), T)>>) :
             T \in IntegerTypes}

InitWidth ==
    /\ pc = "w.start"
    /\ schema \in WidthTargets
    /\ \E x \in WidthValues :
          data = IF schema.k = "struct"
                 THEN ObjEncode(StructuredAdd(NewSequence, NewInteger(x))).bytes
                 ELSE ObjEncode(NewInteger(x)).bytes
    /\ decoded = None /\ reencoded = None
    /\ nesting = None /\ depth = None
    /\ encTag = None /\ encLen = None /\ encOut = None
    /\ num = None /\ intEnc = None /\ enumEnc = None /\ intDec = None
    /\ record = None /\ wire = None /\ target = None
    /\ structElements = None /\ structField = None /\ structCursor = None
    /\ choice = None /\ choiceOut = None
    /\ node = None /\ buffer = None /\ calls = None

\* A call of Unmarshal on the octets, with a pointer to a fresh target.
CallUnmarshalInteger ==
    /\ pc = "w.start"
    /\ target' = Unmarshal(data, ZeroValue(schema), schema)
    /\ pc' = "w.unmarshalled"
    /\ UNCHANGED <<data, schema, decoded>>
    /\ ContentIdle

NextWidth == CallUnmarshalInteger

SpecWidth == InitWidth /\ [][NextWidth]_vars

-----------------------------------------------------------------------------
(* BIT STRING.                                                             *)

\* One bit of NewBitStringFromBits: the weight of character i (from 0) of
\* bits in its octet, 0 for "0" and past the end.
BitWeight(bits, i) ==
    IF i < Len(bits) /\ bits[i + 1] = 49 THEN Power(2, 7 - (i % 8)) ELSE 0

\* The octet byteIndex (from 0) that the loop of NewBitStringFromBits fills.
BitsOctet(bits, byteIndex) ==
    BitWeight(bits, 8 * byteIndex) + BitWeight(bits, 8 * byteIndex + 1)
    + BitWeight(bits, 8 * byteIndex + 2) + BitWeight(bits, 8 * byteIndex + 3)
    + BitWeight(bits, 8 * byteIndex + 4) + BitWeight(bits, 8 * byteIndex + 5)
    + BitWeight(bits, 8 * byteIndex + 6) + BitWeight(bits, 8 * byteIndex + 7)

\* NewBitStringFromBits; a character other than "0" and "1" makes it panic.
NewBitStringFromBits(bits) ==
    IF Len(bits) = 0 THEN [kind |-> "BitString", value |-> <<>>, unusedBits |-> 0]
    ELSE IF \E i \in 1..Len(bits) : bits[i] \notin {48, 49} THEN Panicked
    ELSE [kind |-> "BitString",
          value |-> [k \in 1..((Len(bits) + 7) \div 8) |-> BitsOctet(bits, k - 1)],
          unusedBits |-> (8 - (Len(bits) % 8)) % 8]

\* DecodeBitStringValue: [err, value, unusedBits].
DecodeBitStringValue(d) ==
    IF Len(d) = 0 THEN [err |-> TRUE, value |-> <<>>, unusedBits |-> 0]
    ELSE IF d[1] > 7 THEN [err |-> TRUE, value |-> <<>>, unusedBits |-> 0]
    ELSE IF Len(d) = 1
    THEN IF d[1] # 0 THEN [err |-> TRUE, value |-> <<>>, unusedBits |-> 0]
         ELSE [err |-> FALSE, value |-> <<>>, unusedBits |-> 0]
    ELSE [err |-> FALSE, value |-> Tail(d), unusedBits |-> d[1]]

\* The end of DecodeBitString.
DecodedBitString(bits, consumed) ==
    IF bits.err THEN DecodeFail
    ELSE DecodeOk(NewBitString(bits.value, bits.unusedBits), consumed)

\* DecodeBitString after DecodeTLV.
DecodeBitStringTLV(asn1Value) ==
    IF asn1Value.err THEN DecodeFail
    ELSE IF asn1Value.obj.tag.Class # 0 \/ asn1Value.obj.tag.Number # TagBitString
    THEN DecodeFail
    ELSE DecodedBitString(DecodeBitStringValue(asn1Value.obj.value), asn1Value.consumed)

\* DecodeBitString
DecodeBitString(octets) == DecodeBitStringTLV(DecodeTLV(octets))

\* The longest data of a BIT STRING built from octets, and the longest
\* string of bit characters.
MaxBitOctets == 2

MaxBitChars == 9

BitOctets == {0, 1, 128, 255}

BitData == UNION {[1..n -> BitOctets] : n \in 0..MaxBitOctets}

\* "0", "1" and "2"
BitChars == UNION {[1..n -> {48, 49, 50}] : n \in 0..MaxBitChars}

\* The BIT STRING contents of a received TLV: the first octet around the
\* ends of 0..7.
ReceivedBitContents ==
    {<<>>} \cup {<<u>> \o d : u \in {0, 1, 7, 8, 255}, d \in BitData}

NodeIdle ==
    UNCHANGED <<choiceVars, reencoded, nesting, depth, encoderVars, integerVars,
                marshalVars>>

InitNode ==
    /\ node = None /\ buffer = None /\ calls = None
    /\ data = None /\ decoded = None /\ reencoded = None
    /\ nesting = None /\ depth = None
    /\ encTag = None /\ encLen = None /\ encOut = None
    /\ num = None /\ intEnc = None /\ enumEnc = None /\ intDec = None
    /\ schema = None /\ record = None /\ wire = None /\ target = None
    /\ structElements = None /\ structField = None /\ structCursor = None
    /\ choice = None /\ choiceOut = None

InitBits == pc = "b.start" /\ InitNode

\* NewBitString(value, unusedBits); it panics outside 0..7.
CallNewBitString ==
    /\ pc = "b.start"
    /\ \E value \in BitData, unusedBits \in -1..8 :
          IF unusedBits < 0 \/ unusedBits > 7
          THEN node' = Panicked /\ pc' = "b.panicked"
          ELSE node' = NewBitString(value, unusedBits) /\ pc' = "b.built"
    /\ UNCHANGED <<buffer, calls, data, decoded>>
    /\ NodeIdle

\* NewBitStringFromBits(bits)
CallNewBitStringFromBits ==
    /\ pc = "b.start"
    /\ \E bits \in BitChars :
          /\ node' = NewBitStringFromBits(bits)
          /\ pc' = IF NewBitStringFromBits(bits) = Panicked THEN "b.panicked"
                    ELSE "b.built"
    /\ UNCHANGED <<buffer, calls, data, decoded>>
    /\ NodeIdle

\* (*ASN1BitString).Encode of the node.
CallBitStringEncode ==
    /\ pc = "b.built"
    /\ data' = ObjEncode(node)
    /\ pc' = "b.encoded"
    /\ UNCHANGED <<node, buffer, calls, decoded>>
    /\ NodeIdle

\* The octets of a BIT STRING arrive from elsewhere.
ReceiveBitString ==
    /\ pc = "b.start"
    /\ \E content \in ReceivedBitContents :
          data' = EncodeTLV(NewUniversalTag(TagBitString, FALSE), content)
    /\ pc' = "b.encoded"
    /\ UNCHANGED <<node, buffer, calls, decoded>>
    /\ NodeIdle

\* DecodeBitString of the octets.
CallDecodeBitString ==
    /\ pc = "b.encoded"
    /\ ~data.err
    /\ decoded' = DecodeBitString(data.bytes)
    /\ pc' = "b.decoded"
    /\ UNCHANGED <<node, buffer, calls, data>>
    /\ NodeIdle

NextBits ==
    \/ CallNewBitString
    \/ CallNewBitStringFromBits
    \/ CallBitStringEncode
    \/ ReceiveBitString
    \/ CallDecodeBitString

SpecBits == InitBits /\ [][NextBits]_vars

-----------------------------------------------------------------------------
(* UTCTime: a node built from an instant, encoded, and decoded again.      *)

\* Years at and around the ends of 1950..2049, the years a two-digit year
\* stands for.
UTCYears == {1949, 1950, 1999, 2000, 2023, 2049, 2050}

InitUTC == pc = "u.start" /\ InitNode

\* NewUTCTime(time.Date(year, month, day, hour, min, sec, 0, time.UTC))
CallNewUTCTime ==
    /\ pc = "u.start"
    /\ \E year \in UTCYears, month \in {1, 2, 12}, day \in {1, 25, 28},
          hour \in {0, 10, 23}, min \in {0, 30, 59}, sec \in {0, 45, 59} :
          node' = NewUTCTime(Date(year, month, day, hour, min, sec))
    /\ pc' = "u.built"
    /\ UNCHANGED <<buffer, calls, data, decoded>>
    /\ NodeIdle

\* (*ASN1UTCTime).Encode of the node.
CallUTCTimeEncode ==
    /\ pc = "u.built"
    /\ data' = TimeEncode(node)
    /\ pc' = "u.encoded"
    /\ UNCHANGED <<node, buffer, calls, decoded>>
    /\ NodeIdle

\* DecodeUTCTime of the encoding.
CallDecodeUTCTime ==
    /\ pc = "u.encoded"
    /\ ~data.err
    /\ decoded' = DecodeUTCTime(data.bytes)
    /\ pc' = "u.decoded"
    /\ UNCHANGED <<node, buffer, calls, data>>
    /\ NodeIdle

\* u.SetTime(time.Date(year, 1, 1, 0, 0, 0, 0, time.UTC)): the node holds
\* another instant; octets encoded before are the caller's and stay.
CallSetTime ==
    /\ pc \in {"u.built", "u.encoded", "u.decoded"}
    /\ \E year \in UTCYears : node' = SetTime(node, Date(year, 1, 1, 0, 0, 0))
    /\ pc' = "u.built"
    /\ UNCHANGED <<buffer, calls, data, decoded>>
    /\ NodeIdle

NextUTC == CallNewUTCTime \/ CallSetTime \/ CallUTCTimeEncode \/ CallDecodeUTCTime

SpecUTC == InitUTC /\ [][NextUTC]_vars

-----------------------------------------------------------------------------
(* DecodeAll, and the container chain: a Structured node is given its      *)
(* children one Add at a time, encoded, and decoded again.                 *)

RECURSIVE DecodeAllFrom(_, _, _)
RECURSIVE DecodeAllNext(_, _, _, _)

\* The loop of DecodeAll from offset on: [err, objects].
DecodeAllFrom(d, offset, objects) ==
    IF offset >= Len(d) THEN [err |-> FALSE, objects |-> objects]
    ELSE DecodeAllNext(d, offset, objects, DecodeTLV(Drop(d, offset)))

DecodeAllNext(d, offset, objects, obj) ==
    IF obj.err THEN [err |-> TRUE, objects |-> <<>>]
    ELSE DecodeAllFrom(d, offset + obj.consumed, Append(objects, obj.obj))

\* DecodeAll
DecodeAll(d) == DecodeAllFrom(d, 0, <<>>)

\* The most children a container is given.
MaxAdds == 3

\* SEQUENCE, SET and the constructed context-specific tag [0].
ContainerTags ==
    {NewUniversalTag(TagSequence, TRUE), NewUniversalTag(TagSet, TRUE),
     NewContextSpecificTag(0, TRUE)}

\* The action A for every child: typed leaves, containers, and opaque
\* nodes, one of them with a universal tag and octets that are no text.
WithChild(A(_)) ==
    \/ A(NewBoolean(TRUE))
    \/ A(NewInteger(42))
    \/ A(NewOctetString(<<1>>))
    \/ A(NewUTF8String(<<65>>))
    \/ A(NewSequence)
    \/ A(StructuredAdd(NewSequence, NewInteger(5)))
    \/ A(NewASN1Value(NewContextSpecificTag(1, FALSE), <<7>>))
    \/ A(NewASN1Value(NewUniversalTag(TagUTF8String, FALSE), <<255>>))

InitContainer == pc = "s.start" /\ InitNode

\* NewSequence(), NewSet() or NewStructured(tag)
CallNewStructured ==
    /\ pc = "s.start"
    /\ \E tag \in ContainerTags : node' = NewStructured(tag)
    /\ pc' = "s.built"
    /\ UNCHANGED <<buffer, calls, data, decoded>>
    /\ NodeIdle

AddChild(element) ==
    /\ pc = "s.built"
    /\ Len(node.elements) < MaxAdds
    /\ node' = StructuredAdd(node, element)
    /\ UNCHANGED <<pc, buffer, calls, data, decoded>>
    /\ NodeIdle

\* (*ASN1Structured).Add
CallAdd == WithChild(AddChild)

\* (*ASN1Structured).Encode
CallStructuredEncode ==
    /\ pc = "s.built"
    /\ data' = ObjEncode(node)
    /\ pc' = "s.encoded"
    /\ UNCHANGED <<node, buffer, calls, decoded>>
    /\ NodeIdle

\* DecodeTLV of the encoding, then DecodeAll of its value octets.
CallDecodeAll ==
    /\ pc = "s.encoded"
    /\ ~data.err
    /\ buffer' = DecodeAll(DecodeTLV(data.bytes).obj.value)
    /\ pc' = "s.decoded"
    /\ UNCHANGED <<node, calls, data, decoded>>
    /\ NodeIdle

\* The conversion of Unmarshal: DecodeTLV of the encoding, then
\* convertToHighLevelObject.
CallConvert ==
    /\ pc = "s.encoded"
    /\ ~data.err
    /\ decoded' = convertToHighLevelObject(DecodeTLV(data.bytes).obj)
    /\ pc' = "s.converted"
    /\ UNCHANGED <<node, buffer, calls, data>>
    /\ NodeIdle

NextContainer ==
    \/ CallNewStructured
    \/ CallAdd
    \/ CallStructuredEncode
    \/ CallDecodeAll
    \/ CallConvert

SpecContainer == InitContainer /\ [][NextContainer]_vars

-----------------------------------------------------------------------------
(* The memory chain: slices are cells of a heap, so that a node and its    *)
(* caller may or may not share one. buffer holds the heap of byte slices   *)
(* (bytes), the heap of element slices (lists), the addresses the caller   *)
(* holds (held, heldLists) and the octets the constructor was given.       *)
(* node holds the tag of a leaf, the address of its value, the address of   *)
(* the elements of the SEQUENCE it was added to (0: none) and the tag of   *)
(* that container.                                                         *)

\* The same slice handed on without a copy.
AliasedSlice(heap, ref) == [heap |-> heap, ref |-> ref]

\* make([]T, len(value)) and copy(copied, value): a new cell of the heap.
CopiedSlice(heap, ref) == [heap |-> Append(heap, heap[ref]), ref |-> Len(heap) + 1]

\* The octets a caller writes.
MemoryOctets == {0, 1}

\* The longest caller buffer.
MaxBufferLen == 1

\* The most slices the caller obtains from accessors, of either sort.
MaxHeld == 1

CallerBuffers == UNION {[1..n -> MemoryOctets] : n \in 0..MaxBufferLen}

\* NewOctetString and NewASN1Value with a context-specific tag.
LeafTags == {NewUniversalTag(TagOctetString, FALSE), NewContextSpecificTag(0, FALSE)}

InitMemory ==
    /\ pc = "h.start"
    /\ \E b \in CallerBuffers :
          buffer = [bytes |-> <<b>>, lists |-> <<>>, held |-> {1},
                    heldLists |-> {}, given |-> b]
    /\ node = None /\ calls = None
    /\ data = None /\ decoded = None /\ reencoded = None
    /\ nesting = None /\ depth = None
    /\ encTag = None /\ encLen = None /\ encOut = None
    /\ num = None /\ intEnc = None /\ enumEnc = None /\ intDec = None
    /\ schema = None /\ record = None /\ wire = None /\ target = None
    /\ structElements = None /\ structField = None /\ structCursor = None
    /\ choice = None /\ choiceOut = None

Constructed(tag, copied) ==
    /\ node' = [tag |-> tag, value |-> copied.ref, elements |-> 0, container |-> NoTag]
    /\ buffer' = [buffer EXCEPT !.bytes = copied.heap]

\* NewOctetString(value) or NewASN1Value(tag, value) of the caller's buffer
CallNewLeaf ==
    /\ pc = "h.start"
    /\ \E tag \in LeafTags : Constructed(tag, CopiedSlice(buffer.bytes, 1))
    /\ pc' = "h.built"
    /\ UNCHANGED <<calls, data, decoded>>
    /\ NodeIdle

\* seq := NewSequence(); seq.Add(leaf)
CallAddLeaf ==
    /\ pc # "h.start"
    /\ node.elements = 0
    /\ buffer' = [buffer EXCEPT
          !.lists = Append(@, <<[tag |-> node.tag, value |-> node.value]>>)]
    /\ node' = [node EXCEPT !.elements = Len(buffer.lists) + 1,
                             !.container = NewSequence.tag]
    /\ pc' = "h.built"
    /\ UNCHANGED <<calls, data, decoded>>
    /\ NodeIdle

ValueReturned(copied) ==
    buffer' = [buffer EXCEPT !.bytes = copied.heap, !.held = @ \cup {copied.ref}]

\* (*ASN1OctetString).Value(), (*ASN1Value).Value()
CallLeafValue ==
    /\ pc # "h.start"
    /\ Cardinality(buffer.held) <= MaxHeld
    /\ ValueReturned(CopiedSlice(buffer.bytes, node.value))
    /\ UNCHANGED <<pc, node, calls, data, decoded>>
    /\ NodeIdle

ElementsReturned(copied) ==
    buffer' = [buffer EXCEPT !.lists = copied.heap,
                             !.heldLists = @ \cup {copied.ref}]

\* (*ASN1Structured).Elements()
CallElements ==
    /\ pc # "h.start"
    /\ node.elements # 0
    /\ Cardinality(buffer.heldLists) < MaxHeld
    /\ ElementsReturned(CopiedSlice(buffer.lists, node.elements))
    /\ UNCHANGED <<pc, node, calls, data, decoded>>
    /\ NodeIdle

\* The caller writes an octet of a byte slice it holds.
WriteBytes ==
    /\ pc # "h.start"
    /\ \E a \in buffer.held : \E i \in 1..Len(buffer.bytes[a]) :
          \E b \in MemoryOctets \ {buffer.bytes[a][i]} :
             buffer' = [buffer EXCEPT !.bytes[a][i] = b]
    /\ pc' = "h.written"
    /\ UNCHANGED <<node, calls, data, decoded>>
    /\ NodeIdle

\* The caller replaces a slot of an element slice it holds by a node over
\* its own buffer.
WriteList ==
    /\ pc # "h.start"
    /\ \E a \in buffer.heldLists : \E i \in 1..Len(buffer.lists[a]) :
          \E tag \in LeafTags :
             /\ buffer.lists[a][i] # [tag |-> tag, value |-> 1]
             /\ buffer' = [buffer EXCEPT !.lists[a][i] = [tag |-> tag, value |-> 1]]
    /\ pc' = "h.written"
    /\ UNCHANGED <<node, calls, data, decoded>>
    /\ NodeIdle

\* Encode of the leaf a slot of an element slice points to.
LeafEncode(mem, leaf) == EncodeTLV(leaf.tag, mem.bytes[leaf.value])

\* (*ASN1Structured).Encode once its elements are encoded: the error of an
\* element that failed, or the elements under the tag of the container.
EncodeEncoded(tag, encoded) ==
    IF \E i \in 1..Len(encoded) : encoded[i].err THEN Fail
    ELSE EncodeTLV(tag, Flatten([i \in 1..Len(encoded) |-> encoded[i].bytes]))

\* Encode of the node, or of its container when it has one.
NodeEncode(mem, n) ==
    IF n.elements = 0 THEN LeafEncode(mem, n)
    ELSE EncodeEncoded(n.container,
                       [i \in 1..Len(mem.lists[n.elements]) |->
                          LeafEncode(mem, mem.lists[n.elements][i])])

\* (*ASN1OctetString).Encode, (*ASN1Value).Encode, (*ASN1Structured).Encode
CallNodeEncode ==
    /\ pc # "h.start"
    /\ data' = NodeEncode(buffer, node)
    /\ pc' = "h.encoded"
    /\ UNCHANGED <<node, buffer, calls, decoded>>
    /\ NodeIdle

NextMemory ==
    \/ CallNewLeaf
    \/ CallAddLeaf
    \/ CallLeafValue
    \/ CallElements
    \/ WriteBytes
    \/ WriteList
    \/ CallNodeEncode

SpecMemory == InitMemory /\ [][NextMemory]_vars

-----------------------------------------------------------------------------
(* The concurrent chain: several calls of Marshal, Unmarshal, Encode and   *)
(* Decode in flight at once, each on an input and a target of its own, one *)
(* step of one call at a time. calls holds the frame of every call: its    *)
(* position, its local variable and its result; buffer is the heap of the  *)
(* MarshalOptions objects: those DefaultMarshalOptions allocates for       *)
(* Marshal and Unmarshal, and those the callers of MarshalWithOptions and  *)
(* UnmarshalWithOptions allocate and hand over.  A call holds a reference  *)
(* to its options object, and marshalValue and unmarshalValue read the     *)
(* object through it.                                                      *)

\* Decode after DecodeAll: the first object, or an error.
DecodeFirst(all) ==
    IF all.err \/ Len(all.objects) = 0
    THEN [err |-> TRUE, obj |-> NewASN1Value(NoTag, <<>>)]
    ELSE [err |-> FALSE, obj |-> all.objects[1]]

\* Decode
Decode(d) == DecodeFirst(DecodeAll(d))

\* The allocation of an options object: the heap afterwards and the
\* reference to the object.
Allocate(heap, object) == [heap |-> Append(heap, object), ref |-> Len(heap) + 1]

\* DefaultMarshalOptions handing out one object, the first of the heap, to
\* every call.
SharedMarshalOptions(heap) ==
    IF heap = <<>> THEN Allocate(heap, DefaultOptions) ELSE [heap |-> heap, ref |-> 1]

\* DefaultMarshalOptions: a new options object.
DefaultMarshalOptions(heap) == Allocate(heap, DefaultOptions)

\* The number of calls in flight.
MaxCalls == 2

\* The calls of the model.
CallInputs == 1..12

\* The frame of a call: the operation, its arguments (the value or location
\* v of type T, the octets d, the node obj, and for the calls that take
\* options the flag of the object the caller made), its position, the
\* reference opts to its options object, its local variable and its result.
Call(op, v, T, d, o, given) ==
    [op |-> op, v |-> v, T |-> T, d |-> d, obj |-> o, given |-> given,
     pos |-> "start", opts |-> 0, local |-> None, result |-> None, met |-> FALSE]

CallOf(k) ==
    CASE k = 1 -> Call("Marshal", <<5, TRUE>>, Inner, None, None, None)
      [] k = 2 -> Call("Marshal", <<-1, FALSE>>, Inner, None, None, None)
      [] k = 3 -> Call("Unmarshal", ZeroValue(Inner), Inner,
                       <<48, 6, 2, 1, 5, 128, 1, 255>>, None, None)
      [] k = 4 -> Call("Unmarshal", ZeroValue(Inner), Inner, <<48, 3, 2, 1>>, None, None)
      [] k = 5 -> Call("Encode", None, None, None, NewInteger(300), None)
      [] k = 6 -> Call("Encode", None, None, None,
                       StructuredAdd(NewSequence, NewBoolean(TRUE)), None)
      [] k = 7 -> Call("Decode", None, None, <<2, 1, 5, 1, 1, 255>>, None, None)
      [] k = 8 -> Call("Decode", None, None, <<>>, None, None)
      [] k = 9 -> Call("MarshalWithOptions", <<5, TRUE>>, Inner, None, None, FALSE)
      [] k = 10 -> Call("UnmarshalWithOptions", ZeroValue(Inner), Inner,
                        <<48, 6, 2, 1, 5, 1, 1, 255>>, None, FALSE)
      [] k = 11 -> Call("UnmarshalWithOptions", ZeroValue(Inner), Inner,
                        <<48, 6, 2, 1, 5, 128, 1, 255>>, None, TRUE)
      [] k = 12 -> Call("Encode", None, None, None,
                        NewUTCTime(Date(2023, 12, 25, 10, 30, 45)), None)

\* The calls that marshal and the calls that unmarshal.
MarshalCalls == {"Marshal", "MarshalWithOptions"}
UnmarshalCalls == {"Unmarshal", "UnmarshalWithOptions"}

InitCalls ==
    /\ pc = "c.run"
    /\ buffer = <<>>
    /\ \E f \in [1..MaxCalls -> CallInputs] : calls = [i \in 1..MaxCalls |-> CallOf(f[i])]
    /\ node = None
    /\ data = None /\ decoded = None /\ reencoded = None
    /\ nesting = None /\ depth = None
    /\ encTag = None /\ encLen = None /\ encOut = None
    /\ num = None /\ intEnc = None /\ enumEnc = None /\ intDec = None
    /\ schema = None /\ record = None /\ wire = None /\ target = None
    /\ structElements = None /\ structField = None /\ structCursor = None
    /\ choice = None /\ choiceOut = None

\* Some other call is between its first and its last step.
Overlaps(i) == \E j \in 1..MaxCalls \ {i} : calls[j].pos \notin {"start", "done"}

\* Call i moves to position pos with the local variable and result given.
Moved(i, pos, local, result) ==
    /\ calls' = [calls EXCEPT ![i].pos = pos, ![i].local = local,
                               ![i].result = result,
                               ![i].met = @ \/ Overlaps(i)]
    /\ UNCHANGED <<pc, node, data, decoded>>
    /\ NodeIdle

Allocated(i, made) ==
    /\ buffer' = made.heap
    /\ calls' = [calls EXCEPT ![i].pos = "opts", ![i].opts = made.ref,
                               ![i].met = @ \/ Overlaps(i)]
    /\ UNCHANGED <<pc, node, data, decoded>>
    /\ NodeIdle

\* Marshal and Unmarshal: DefaultMarshalOptions()
StepOptions ==
    \E i \in 1..MaxCalls :
       /\ calls[i].op \in {"Marshal", "Unmarshal"}
       /\ calls[i].pos = "start"
       /\ Allocated(i, DefaultMarshalOptions(buffer))

\* The caller of MarshalWithOptions and UnmarshalWithOptions: the options
\* object it makes for the call, &MarshalOptions{UseContextTags: given}
StepCallerOptions ==
    \E i \in 1..MaxCalls :
       /\ calls[i].op \in {"MarshalWithOptions", "UnmarshalWithOptions"}
       /\ calls[i].pos = "start"
       /\ Allocated(i, Allocate(buffer, MarshalOptions(calls[i].given)))

\* MarshalWithOptions: marshalValue
StepMarshalValue ==
    \E i \in 1..MaxCalls :
       /\ calls[i].op \in MarshalCalls
       /\ calls[i].pos = "opts"
       /\ Moved(i, "built",
                marshalValue(<<calls[i].v>>, PtrType(calls[i].T), buffer[calls[i].opts]),
                None)
       /\ UNCHANGED buffer

\* MarshalWithOptions: obj.Encode()
StepMarshalEncode ==
    \E i \in 1..MaxCalls :
       /\ calls[i].op \in MarshalCalls
       /\ calls[i].pos = "built"
       /\ Moved(i, "done", None, EncodeMarshalled(calls[i].local))
       /\ UNCHANGED buffer

\* UnmarshalWithOptions: DecodeTLV
StepUnmarshalDecode ==
    \E i \in 1..MaxCalls :
       /\ calls[i].op \in UnmarshalCalls
       /\ calls[i].pos = "opts"
       /\ Moved(i, "decoded", DecodeTLV(calls[i].d), None)
       /\ UNCHANGED buffer

\* UnmarshalWithOptions: the return on a failed DecodeTLV
StepUnmarshalFail ==
    \E i \in 1..MaxCalls :
       /\ calls[i].op \in UnmarshalCalls
       /\ calls[i].pos = "decoded"
       /\ calls[i].local.err
       /\ Moved(i, "done", None, [err |-> TRUE, panic |-> FALSE, v |-> calls[i].v])
       /\ UNCHANGED buffer

\* UnmarshalWithOptions: the conversion of the decoded value
StepUnmarshalConvert ==
    \E i \in 1..MaxCalls :
       /\ calls[i].op \in UnmarshalCalls
       /\ calls[i].pos = "decoded"
       /\ ~calls[i].local.err
       /\ Moved(i, "converted",
                TopLevelObject(calls[i].local,
                               ParseElements(calls[i].local.obj.value, 0,
                                             NewStructured(calls[i].local.obj.tag))),
                None)
       /\ UNCHANGED buffer

\* UnmarshalWithOptions: unmarshalValue
StepUnmarshalValue ==
    \E i \in 1..MaxCalls :
       /\ calls[i].op \in UnmarshalCalls
       /\ calls[i].pos = "converted"
       /\ Moved(i, "done", None,
                UnmarshalObject(calls[i].local, calls[i].v, calls[i].T,
                                buffer[calls[i].opts]))
       /\ UNCHANGED buffer

\* Encode
StepEncode ==
    \E i \in 1..MaxCalls :
       /\ calls[i].op = "Encode"
       /\ calls[i].pos = "start"
       /\ Moved(i, "done", None, ObjEncode(calls[i].obj))
       /\ UNCHANGED buffer

\* Decode: DecodeAll
StepDecodeAll ==
    \E i \in 1..MaxCalls :
       /\ calls[i].op = "Decode"
       /\ calls[i].pos = "start"
       /\ Moved(i, "all", DecodeAll(calls[i].d), None)
       /\ UNCHANGED buffer

\* Decode: the first object
StepDecodeFirst ==
    \E i \in 1..MaxCalls :
       /\ calls[i].op = "Decode"
       /\ calls[i].pos = "all"
       /\ Moved(i, "done", None, DecodeFirst(calls[i].local))
       /\ UNCHANGED buffer

NextCalls ==
    \/ StepOptions
    \/ StepCallerOptions
    \/ StepMarshalValue
    \/ StepMarshalEncode
    \/ StepUnmarshalDecode
    \/ StepUnmarshalFail
    \/ StepUnmarshalConvert
    \/ StepUnmarshalValue
    \/ StepEncode
    \/ StepDecodeAll
    \/ StepDecodeFirst

SpecCalls == InitCalls /\ [][NextCalls]_vars

-----------------------------------------------------------------------------
(* The explicit chain: Unmarshal of a SEQUENCE of one child into a record  *)
(* of one field marked explicit with the context tag [0].                  *)

\* The most inner elements of the child.
MaxInner == 2

\* struct { X int64; Y int64 }
Pair == StructType("none", <<Field("X", Desc("integer", <<>>), Int64),
                             Field("Y", Desc("integer", <<>>), Int64)>>)

\* A record of one explicit field of the given ASN.1 type and host type.
ExplicitSchema(type, T, optional) ==
    StructType("none",
               <<Field("A", Desc(type, IF optional THEN <<OptOptional, OptExplicit, OptTag(0)>>
                                       ELSE <<OptExplicit, OptTag(0)>>), T)>>)

ExplicitSchemas ==
    {ExplicitSchema("integer", Int64, o) : o \in BOOLEAN}
       \cup {ExplicitSchema("sequence", Pair, o) : o \in BOOLEAN}
       \cup {ExplicitSchema("sequence", SliceType(Int64), o) : o \in BOOLEAN}
       \cup {ExplicitSchema("octetstring", BytesType, o) : o \in BOOLEAN}

\* The inner elements: INTEGER 5, INTEGER 7 and an OCTET STRING.
InnerTLVs == {<<2, 1, 5>>, <<2, 1, 7>>, <<4, 1, 9>>}

\* The children: [0] constructed around up to MaxInner inner elements, [0]
\* primitive, and [1] constructed.
ExplicitChildren ==
    {EncodeTLV(NewContextSpecificTag(0, TRUE), Flatten(inner)).bytes :
        inner \in UNION {[1..n -> InnerTLVs] : n \in 0..MaxInner}}
       \cup {EncodeTLV(NewContextSpecificTag(0, FALSE), octets).bytes :
                octets \in {<<5>>, <<2, 1, 5>>}}
       \cup {EncodeTLV(NewContextSpecificTag(1, TRUE), <<2, 1, 5>>).bytes}

InitExplicit ==
    /\ pc = "x.start"
    /\ schema \in ExplicitSchemas
    /\ \E child \in ExplicitChildren : wire = ReceivedSequence(<<child>>)
    /\ record = None /\ target = None
    /\ IdleOutsideMarshal

\* Unmarshal(wire, &target)
CallUnmarshalExplicit ==
    /\ pc = "x.start"
    /\ target' = Unmarshal(wire.bytes, ZeroValue(schema), schema)
    /\ pc' = "x.done"
    /\ UNCHANGED <<nodeVars, choiceVars, schema, record, wire, loopVars, codecVars, encoderVars, integerVars>>

NextExplicit == CallUnmarshalExplicit

SpecExplicit == InitExplicit /\ [][NextExplicit]_vars

-----------------------------------------------------------------------------
(* The broken-child chain: Unmarshal of SEQUENCE { INTEGER 5, child },     *)
(* where the child is constructed and its content may not parse.           *)

\* A record of an integer and, after it, the fields given.
AfterInteger(fields) ==
    StructType("none", <<Field("A", Desc("integer", <<>>), Int64)>> \o fields)

\* The records: the integer alone, and the integer followed by a struct, an
\* optional pointer to a struct, an IMPLICIT-tagged struct or an
\* IMPLICIT-tagged slice.
BrokenSchemas ==
    {AfterInteger(<<>>),
     AfterInteger(<<Field("B", Desc("sequence", <<>>), Pair)>>),
     AfterInteger(<<Field("B", Desc("sequence", <<OptOptional>>), PtrType(Pair))>>),
     AfterInteger(<<Field("B", Desc("sequence", <<OptTag(0)>>), Pair)>>),
     AfterInteger(<<Field("B", Desc("sequence", <<OptTag(0)>>), SliceType(Int64))>>)}

\* The content of the child: two integers; a second integer cut short; a
\* first integer cut short; a lone length-less tag; two integers and a
\* nested SEQUENCE, whole or cut short; nothing; two integers and a tail.
ChildContents ==
    {<<2, 1, 5, 2, 1, 7>>, <<2, 1, 5, 2, 5>>, <<2, 5>>, <<2>>,
     <<2, 1, 5, 2, 1, 7, 48, 3, 2, 1, 9>>, <<2, 1, 5, 2, 1, 7, 48, 2, 2, 5>>,
     <<>>, <<2, 1, 5, 2, 1, 7, 2>>}

ChildTags == {NewUniversalTag(TagSequence, TRUE), NewContextSpecificTag(0, TRUE)}

InitBroken ==
    /\ pc = "k.start"
    /\ schema \in BrokenSchemas
    /\ \E tag \in ChildTags : \E content \in ChildContents :
          wire = ReceivedSequence(<<<<2, 1, 5>>, EncodeTLV(tag, content).bytes>>)
    /\ record = None /\ target = None
    /\ IdleOutsideMarshal

\* Unmarshal(wire, &target)
CallUnmarshalBroken ==
    /\ pc = "k.start"
    /\ target' = Unmarshal(wire.bytes, ZeroValue(schema), schema)
    /\ pc' = "k.done"
    /\ UNCHANGED <<nodeVars, choiceVars, schema, record, wire, loopVars, codecVars, encoderVars, integerVars>>

NextBroken == CallUnmarshalBroken

SpecBroken == InitBroken /\ [][NextBroken]_vars

-----------------------------------------------------------------------------
(* The unsigned chain: Marshal and Unmarshal of an unsigned host integer   *)
(* of 8 to 64 bits. The integers of the chains above fit in 32 bits; here  *)
(* a machine word is its octets, most significant first, and the INTEGER   *)
(* node holds a big.Int [neg, abs].                                        *)

\* unmarshalUint of a big.Int into a field of the given width: [err, v].
unmarshalBigUint(big, v) ==
    IF big.neg THEN [err |-> TRUE, v |-> v]
    ELSE IF Len(big.abs) > 8 THEN [err |-> TRUE, v |-> v]
    ELSE [err |-> FALSE, v |-> SubSeq(ZeroExtend(big.abs, 8), 9 - Len(v), 8)]

\* Unmarshal of the octets into an unsigned integer holding v.
UnmarshalUintValue(value, v) ==
    IF value.err \/ value.obj.tag # NewUniversalTag(TagInteger, FALSE)
       \/ DecodeBigValue(value.obj.value).err
    THEN [err |-> TRUE, v |-> v]
    ELSE unmarshalBigUint(DecodeBigValue(value.obj.value).big, v)

\* The widths of the unsigned host integers, in octets.
UintWidths == {1, 2, 4, 8}

\* The first and the last octet of a host integer, and its middle octets.
EdgeOctets == {0, 1, 127, 128, 255}
MiddleOctets == {0, 255}

\* The host integers of n octets.
UintValues(n) ==
    IF n = 1 THEN {<<b>> : b \in EdgeOctets}
    ELSE {<<hi>> \o [i \in 1..(n - 2) |-> mid] \o <<lo>> :
             hi \in EdgeOctets, mid \in MiddleOctets, lo \in EdgeOctets}

InitUnsigned ==
    /\ pc = "g.start"
    /\ \E n \in UintWidths : buffer \in UintValues(n)
    /\ node = None /\ calls = None
    /\ data = None /\ decoded = None /\ reencoded = None
    /\ nesting = None /\ depth = None
    /\ encTag = None /\ encLen = None /\ encOut = None
    /\ num = None /\ intEnc = None /\ enumEnc = None /\ intDec = None
    /\ schema = None /\ record = None /\ wire = None /\ target = None
    /\ structElements = None /\ structField = None /\ structCursor = None
    /\ choice = None /\ choiceOut = None

\* Marshal(&u)
CallMarshalUint ==
    /\ pc = "g.start"
    /\ node' = marshalUint(buffer)
    /\ data' = BigIntegerEncode(marshalUint(buffer))
    /\ pc' = "g.marshalled"
    /\ UNCHANGED <<buffer, calls, decoded>>
    /\ NodeIdle

\* Unmarshal(data, &u) for a zero u of the same type
CallUnmarshalUint ==
    /\ pc = "g.marshalled"
    /\ ~data.err
    /\ decoded' = UnmarshalUintValue(DecodeTLV(data.bytes),
                                     [i \in 1..Len(buffer) |-> 0])
    /\ pc' = "g.unmarshalled"
    /\ UNCHANGED <<node, buffer, calls, data>>
    /\ NodeIdle

NextUnsigned == CallMarshalUint \/ CallUnmarshalUint

SpecUnsigned == InitUnsigned /\ [][NextUnsigned]_vars

-----------------------------------------------------------------------------
(* The descriptor chain: parseASN1Tag of a descriptor string, given as its *)
(* type name and the options after it.                                     *)

\* The most options of a descriptor.
MaxOptions == 3

\* optional, omitempty, explicit, tag:0, tag:5, tag:x and an unknown word.
DescriptorOptions ==
    {OptOptional, OptOmitempty, OptExplicit, OptTag(0), OptTag(5), OptBadTag, OptUnknown}

DescriptorTypes == {"integer", "sequence"}

InitDescriptor ==
    /\ pc = "p.start"
    /\ \E type \in DescriptorTypes : \E n \in 0..MaxOptions :
          \E opts \in [1..n -> DescriptorOptions] : schema = Desc(type, opts)
    /\ record = None /\ wire = None /\ target = None
    /\ IdleOutsideMarshal

\* parseASN1Tag(tag)
CallParseASN1Tag ==
    /\ pc = "p.start"
    /\ target' = parseASN1Tag(schema)
    /\ pc' = "p.done"
    /\ UNCHANGED <<nodeVars, choiceVars, schema, record, wire, loopVars, codecVars, encoderVars, integerVars>>

NextDescriptor == CallParseASN1Tag

SpecDescriptor == InitDescriptor /\ [][NextDescriptor]_vars

-----------------------------------------------------------------------------
(* The loop chain: the loop of DecodeAll, and that of the conversion of a  *)
(* constructed value with the loops of its constructed children inside it, *)
(* one iteration at a time. buffer holds the loop that runs (mode), the    *)
(* frames of the loops entered and not yet left, each with its content,    *)
(* its offset and the consumed lengths so far, the count of iterations     *)
(* (turns), and whether the outermost loop met an error (failed).          *)

\* DecodeTLV(content[offset:]) with no octets consumed.
LoopTurnStuck(content, offset) == [DecodeTLV(Drop(content, offset)) EXCEPT !.consumed = 0]

\* elementValue, consumed, err := DecodeTLV(content[offset:])
LoopTurn(content, offset) == DecodeTLV(Drop(content, offset))

\* The longest input.
MaxInputLen == 5

\* Tag and length octets: primitive and constructed tags, short lengths
\* and the long form of one octet.
LoopOctets == {0, 1, 2, 48, 129}

LoopInputs == UNION {[1..n -> LoopOctets] : n \in 0..MaxInputLen}

Frame(content) == [content |-> content, offset |-> 0, sizes |-> <<>>]

InitLoop ==
    /\ pc = "a.loop"
    /\ \E d \in LoopInputs : \E mode \in {"DecodeAll", "convert"} :
          buffer = [mode |-> mode, frames |-> <<Frame(d)>>, turns |-> 0,
                    failed |-> FALSE]
    /\ node = None /\ calls = None
    /\ data = None /\ decoded = None /\ reencoded = None
    /\ nesting = None /\ depth = None
    /\ encTag = None /\ encLen = None /\ encOut = None
    /\ num = None /\ intEnc = None /\ enumEnc = None /\ intDec = None
    /\ schema = None /\ record = None /\ wire = None /\ target = None
    /\ structElements = None /\ structField = None /\ structCursor = None
    /\ choice = None /\ choiceOut = None

\* The frame of the innermost loop.
Top == buffer.frames[Len(buffer.frames)]

\* The frames after the innermost loop consumed r.
Advanced(r) ==
    [buffer.frames EXCEPT ![Len(buffer.frames)] =
        [@ EXCEPT !.offset = @ + r.consumed, !.sizes = Append(@, r.consumed)]]

\* The iteration of the innermost loop came to r.
Turned(r) ==
    IF r.err
    THEN IF Len(buffer.frames) = 1
         THEN /\ buffer' = [buffer EXCEPT !.failed = TRUE, !.turns = @ + 1]
              /\ pc' = "a.done"
         ELSE /\ buffer' = [buffer EXCEPT
                     !.frames = SubSeq(@, 1, Len(@) - 1), !.turns = @ + 1]
              /\ pc' = pc
    ELSE /\ buffer' = [buffer EXCEPT
                !.frames = IF buffer.mode = "convert" /\ r.obj.tag.Constructed
                           THEN Append(Advanced(r), Frame(r.obj.value))
                           ELSE Advanced(r),
                !.turns = @ + 1]
         /\ pc' = pc

\* One iteration: DecodeTLV of the rest of the content; on an error
\* DecodeAll returns it and the conversion returns the value raw; a
\* constructed element of the conversion is converted in its turn.
StepTurn ==
    /\ pc = "a.loop"
    /\ Top.offset < Len(Top.content)
    /\ Turned(LoopTurn(Top.content, Top.offset))
    /\ UNCHANGED <<node, calls, data, decoded>>
    /\ NodeIdle

\* The end of the innermost loop: offset has reached the length.
StepReturn ==
    /\ pc = "a.loop"
    /\ Top.offset >= Len(Top.content)
    /\ IF Len(buffer.frames) = 1
       THEN pc' = "a.done" /\ buffer' = buffer
       ELSE pc' = pc /\ buffer' = [buffer EXCEPT !.frames = SubSeq(@, 1, Len(@) - 1)]
    /\ UNCHANGED <<node, calls, data, decoded>>
    /\ NodeIdle

NextLoop == StepTurn \/ StepReturn

SpecLoop == InitLoop /\ [][NextLoop]_vars /\ WF_vars(NextLoop)

SpecRecord == InitRecord /\ [][NextMarshal]_vars

SpecTagging == InitTagging /\ [][NextMarshal]_vars

SpecList == InitList /\ [][NextMarshal]_vars

SpecHooked == InitHooked /\ [][NextMarshal]_vars

SpecOmit == InitOmit /\ [][NextMarshal]_vars

SpecLayout == InitLayout /\ [][NextMarshal]_vars

SpecChoice == InitChoice /\ [][NextMarshal]_vars

-----------------------------------------------------------------------------
(* Properties of the codec chain.                                          *)

RECURSIVE DigitsValue(_, _)
\* The number a big-endian digit string denotes.
DigitsValue(digits, base) ==
    IF Len(digits) = 0 THEN 0
    ELSE (DigitsValue(SubSeq(digits, 1, Len(digits) - 1), base) * base) + digits[Len(digits)]

\* The octets DecodeTLV consumed.
Consumed == SubSeq(data, 1, decoded.consumed)

\* C4: for any octet string that DecodeTLV accepts, encoding the decoded
\* node gives back exactly the octets that were consumed.
C4_ReencodeIsIdentity ==
    pc = "codec.encoded" => (~reencoded.err /\ reencoded.bytes = Consumed)

\* Where the tag octets of d end, read off the octets themselves: 1 for a
\* one-octet tag, otherwise the position of the first octet after the leading
\* one whose top bit is clear; 0 when the buffer ends before that.
TagEnd(d) ==
    IF Len(d) = 0 THEN 0
    ELSE IF d[1] % 32 # 31 THEN 1
    ELSE LET ends == {i \in 2..Len(d) : d[i] < 128}
         IN  IF ends = {} THEN 0 ELSE CHOOSE i \in ends : \A j \in ends : i <= j

\* The first length octet of d, or -1 when the buffer holds none.
FirstLengthOctet(d) ==
    IF TagEnd(d) = 0 \/ TagEnd(d) >= Len(d) THEN -1 ELSE d[TagEnd(d) + 1]

IndefiniteLength(d) == FirstLengthOctet(d) = 128

OversizedLongForm(d) == FirstLengthOctet(d) > 128 + 4

EndsInsideTag(d) == Len(d) > 0 /\ TagEnd(d) = 0

EndsInsideLength(d) ==
    /\ TagEnd(d) > 0
    /\ \/ Len(d) = TagEnd(d)
       \/ /\ FirstLengthOctet(d) > 128
          /\ Len(d) < TagEnd(d) + 1 + (FirstLengthOctet(d) - 128)

\* The length a well-formed header of d announces, and the octets after it.
AnnouncedLength(d) ==
    IF FirstLengthOctet(d) < 128 THEN FirstLengthOctet(d)
    ELSE DigitsValue(SubSeq(d, TagEnd(d) + 2, TagEnd(d) + 1 + (FirstLengthOctet(d) - 128)), 256)

HeaderLen(d) ==
    IF FirstLengthOctet(d) < 128 THEN TagEnd(d) + 1
    ELSE TagEnd(d) + 1 + (FirstLengthOctet(d) - 128)

LengthExceedsBuffer(d) ==
    /\ FirstLengthOctet(d) >= 0
    /\ ~IndefiniteLength(d) /\ ~OversizedLongForm(d) /\ ~EndsInsideLength(d)
    /\ AnnouncedLength(d) > Len(d) - HeaderLen(d)

Malformed(d) ==
    \/ IndefiniteLength(d)
    \/ OversizedLongForm(d)
    \/ EndsInsideTag(d)
    \/ EndsInsideLength(d)
    \/ LengthExceedsBuffer(d)

\* C8: decoding a TLV returns an error, and no value, whenever the first
\* length octet is 0x80, the long form announces more than 4 length octets,
\* the buffer ends inside the tag or length octets, or the decoded length
\* exceeds the octets that remain.
C8_MalformedIsRejected ==
    (pc = "codec.decoded" /\ Malformed(data)) => (decoded.err /\ decoded.consumed = 0)

\* Every kind of malformed input of C8 has been decoded.
C8_Witness ==
    /\ pc = "codec.decoded"
    /\ decoded.err
    /\ LengthExceedsBuffer(data)
    /\ Len(data) = MaxDataLen

C8_WitnessIndefinite == pc = "codec.decoded" /\ IndefiniteLength(data) /\ decoded.err

C8_WitnessOversized == pc = "codec.decoded" /\ OversizedLongForm(data) /\ decoded.err

C8_WitnessInsideTag == pc = "codec.decoded" /\ EndsInsideTag(data) /\ decoded.err

C8_WitnessInsideLength ==
    pc = "codec.decoded" /\ EndsInsideLength(data) /\ FirstLengthOctet(data) > 128 /\ decoded.err

-----------------------------------------------------------------------------
(* Properties of the encoder chain.                                        *)

\* The fewest digits that hold n > 0 in the given base.
MinDigits(n, base) == CHOOSE k \in 1..8 : Power(base, k) > n /\ Power(base, k - 1) <= n

\* The octets EncodeTLV put in front of the value.
EncHeader == SubSeq(encOut.bytes, 1, Len(encOut.bytes) - encLen)

ExpectedTagLen == IF encTag.Number <= 30 THEN 1 ELSE 1 + MinDigits(encTag.Number, 128)

ExpectedLengthLen == IF encLen < 128 THEN 1 ELSE 1 + MinDigits(encLen, 256)

EncTagOctets == SubSeq(EncHeader, 1, ExpectedTagLen)

EncLengthOctets == SubSeq(EncHeader, ExpectedTagLen + 1, Len(EncHeader))

\* The tag octets are the minimum for the tag number.
MinimalTag ==
    /\ Len(EncHeader) >= ExpectedTagLen
    /\ EncTagOctets[1] \div 32 = (encTag.Class * 2) + (IF encTag.Constructed THEN 1 ELSE 0)
    /\ IF encTag.Number <= 30
       THEN EncTagOctets[1] % 32 = encTag.Number
       ELSE /\ EncTagOctets[1] % 32 = 31
            /\ EncTagOctets[2] # 128
            /\ \A i \in 2..(ExpectedTagLen - 1) : EncTagOctets[i] >= 128
            /\ EncTagOctets[ExpectedTagLen] < 128
            /\ DigitsValue([i \in 1..(ExpectedTagLen - 1) |-> EncTagOctets[i + 1] % 128], 128)
                 = encTag.Number

\* The length octets are the minimal definite form.
MinimalLength ==
    /\ Len(EncLengthOctets) = ExpectedLengthLen
    /\ IF encLen < 128
       THEN EncLengthOctets[1] = encLen
       ELSE /\ EncLengthOctets[1] = 128 + (ExpectedLengthLen - 1)
            /\ EncLengthOctets[2] # 0
            /\ DigitsValue(SubSeq(EncLengthOctets, 2, ExpectedLengthLen), 256) = encLen

\* C7: for every TLV the encoder emits, the tag is one octet for a tag number
\* up to 30 and otherwise the 0x1F form followed by the fewest base-128
\* octets, and the length is one octet below 0x80 and otherwise 0x80|k
\* followed by the fewest k big-endian octets.
C7_MinimalHeader ==
    pc = "enc.done" =>
        /\ ~encOut.err
        /\ SubSeq(encOut.bytes, Len(encOut.bytes) - encLen + 1, Len(encOut.bytes))
             = FillerValue(encLen)
        /\ MinimalTag
        /\ MinimalLength

\* A TLV with a three-octet high tag number and a two-octet long form length
\* has been emitted.
C7_Witness ==
    /\ pc = "enc.done"
    /\ encTag.Number > 16383
    /\ encLen > 255
    /\ Len(encOut.bytes) = 4 + 3 + encLen

-----------------------------------------------------------------------------
(* Properties of the integer chain.                                        *)

\* The value octets of a TLV with a one-octet tag and a one-octet length.
ShortValue(tlv) == SubSeq(tlv, 3, Len(tlv))

\* No shorter octet string is the two's complement of the same number.
MinimalTwosComplement(v) ==
    /\ Len(v) >= 1
    /\ ~(Len(v) >= 2 /\ v[1] = 0 /\ v[2] < 128)
    /\ ~(Len(v) >= 2 /\ v[1] = 255 /\ v[2] >= 128)

\* The number an octet string denotes in big-endian two's complement.
TwosComplementValue(v) ==
    IF v[1] >= 128 THEN DigitsValue(v, 256) - Power(256, Len(v)) ELSE DigitsValue(v, 256)

\* C5: for every integer n, the value octets emitted for INTEGER n are the
\* minimum-length big-endian two's complement of n.
C5_IntegerIsMinimal ==
    pc = "int.encoded" =>
        /\ ~intEnc.err
        /\ MinimalTwosComplement(ShortValue(intEnc.bytes))
        /\ TwosComplementValue(ShortValue(intEnc.bytes)) = num

\* C6: for every integer n, DecodeInteger of the encoding of Integer(n)
\* succeeds, returns n, and reports the length of the encoding as consumed.
C6_IntegerRoundTrip ==
    pc = "int.decoded" =>
        /\ ~intDec.err
        /\ intDec.value = num
        /\ intDec.consumed = Len(intEnc.bytes)

\* A negative integer of more than one octet has made the round trip.
C6_Witness ==
    /\ pc = "int.decoded"
    /\ num < -128
    /\ Len(intEnc.bytes) > 3
    /\ intDec.value = num

\* C9: for every integer n, the value octets of Enumerated(n) are those of
\* Integer(n); the encodings differ only in the tag number (10 for 2).
C9_EnumeratedMatchesInteger ==
    pc = "int.enumerated" =>
        /\ ~enumEnc.err
        /\ ShortValue(enumEnc.bytes) = ShortValue(intEnc.bytes)
        /\ enumEnc.bytes[1] = TagEnumerated
        /\ intEnc.bytes[1] = TagInteger
        /\ enumEnc.bytes[2] = intEnc.bytes[2]

-----------------------------------------------------------------------------
(* Properties of the marshal chain.                                        *)

FieldCount == Len(schema.fields)

FieldIsPointer(i) == schema.fields[i].type.k = "ptr"

FieldIsOptional(i) == FieldInfoOf(schema.fields[i]).info.Optional

FieldIsNil(i) == FieldIsPointer(i) /\ record[i] = <<>>

RequiredPointersSet ==
    \A i \in 1..FieldCount : FieldIsPointer(i) /\ ~FieldIsOptional(i) => record[i] # <<>>

\* C1: a record of integer fields whose non-optional pointer fields are all
\* non-nil marshals without error, and unmarshalling the octets into a fresh
\* record of the same type succeeds and yields the original record, nil
\* optional fields still nil.
C1_RecordRoundTrip ==
    RequiredPointersSet =>
        /\ pc = "m.marshalled" => ~wire.err
        /\ pc = "m.unmarshalled" => ~target.err /\ target.v = record

\* s without its element at position i.
RemoveAt(s, i) == [j \in 1..(Len(s) - 1) |-> IF j < i THEN s[j] ELSE s[j + 1]]

\* C2: a nil optional field contributes no octets (the record marshals to
\* what the record without that field marshals to), and unmarshalling the
\* octets leaves that field nil, wherever the field stands in the record and
\* whether or not it is tagged.
C2_NilOptionalIsAbsent ==
    \A i \in 1..(IF pc = "m.start" THEN 0 ELSE FieldCount) :
        FieldIsOptional(i) /\ FieldIsNil(i) =>
            /\ pc = "m.marshalled" =>
                 wire = Marshal(RemoveAt(record, i),
                                [schema EXCEPT !.fields = RemoveAt(@, i)])
            /\ pc = "m.unmarshalled" => target.v[i] = <<>>

\* The three elements of a marshalled tagging record, as octets and decoded.
TaggingContent == DecodeTLV(wire.bytes).obj.value

PlainTLV == DecodeTLV(TaggingContent)

ImplicitTLV == DecodeTLV(Drop(TaggingContent, PlainTLV.consumed))

ExplicitTLV == DecodeTLV(Drop(TaggingContent, PlainTLV.consumed + ImplicitTLV.consumed))

TaggingNumber == schema.fields[2].ann.opts[1].n

\* C3: for one value and one tag number N, the EXPLICIT field is a
\* context-class constructed TLV numbered N whose content is the complete
\* universal TLV of the value, the IMPLICIT field is a TLV tagged (context,
\* constructed bit of the value's TLV, N) whose content is the content of
\* the value's TLV, and both unmarshal to the value.
C3_ExplicitAndImplicitTagging ==
    /\ pc = "m.marshalled" =>
         /\ ~wire.err
         /\ ~PlainTLV.err /\ ~ImplicitTLV.err /\ ~ExplicitTLV.err
         /\ PlainTLV.consumed + ImplicitTLV.consumed + ExplicitTLV.consumed
              = Len(TaggingContent)
         /\ PlainTLV.obj.tag.Class = 0
         /\ ExplicitTLV.obj.tag = [Class |-> 2, Constructed |-> TRUE,
                                   Number |-> TaggingNumber]
         /\ ExplicitTLV.obj.value = SubSeq(TaggingContent, 1, PlainTLV.consumed)
         /\ ImplicitTLV.obj.tag = [Class |-> 2,
                                   Constructed |-> PlainTLV.obj.tag.Constructed,
                                   Number |-> TaggingNumber]
         /\ ImplicitTLV.obj.value = PlainTLV.obj.value
    /\ pc = "m.unmarshalled" =>
         /\ ~target.err
         /\ target.v[2] = record[2]
         /\ target.v[3] = record[3]
         /\ target.v[2] = target.v[3]

\* A tagging record of nested records under a tag number in the high form
\* has been marshalled and unmarshalled.
C3_Witness ==
    /\ pc = "m.unmarshalled"
    /\ schema.fields[1].type.k = "struct"
    /\ TaggingNumber > 30
    /\ ~target.err
    /\ record[1][1] = 300

ListElementType == schema.fields[1].type.elem

ListHasHooks ==
    \/ HasHooks(ListElementType)
    \/ ListElementType.k = "ptr" /\ HasHooks(ListElementType.elem)

\* What the marshal hook returns for element i of the list.
ElementHookOutput(i) ==
    IF ListElementType.k = "ptr"
    THEN HookMarshal(ListElementType.elem, record[1][i][1]).bytes
    ELSE HookMarshal(ListElementType, record[1][i]).bytes

\* sub occurs in s as a run of consecutive octets.
Occurs(sub, s) ==
    \E k \in 0..(Len(s) - Len(sub)) : SubSeq(s, k + 1, k + Len(sub)) = sub

\* C10: a list whose elements (or the elements they point to) carry the
\* hooks is marshalled through the marshal hook, element by element, and
\* unmarshalled through the unmarshal hook, so that the list round-trips,
\* the empty list included.
C10_HookedListRoundTrip ==
    pc # "m.start" /\ ListHasHooks =>
        /\ pc = "m.marshalled" =>
             /\ ~wire.err
             /\ \A i \in 1..Len(record[1]) : Occurs(ElementHookOutput(i), wire.bytes)
        /\ pc = "m.unmarshalled" => ~target.err /\ target.v = record

-----------------------------------------------------------------------------
(* Hooks under every descriptor type and tagging.                          *)

\* The type with hooks of the one field of a hooked record, and its value.
HookedFieldType ==
    IF schema.fields[1].type.k = "ptr" THEN schema.fields[1].type.elem
    ELSE schema.fields[1].type

HookedFieldValue ==
    IF schema.fields[1].type.k = "ptr" THEN record[1][1] ELSE record[1]

\* The octets the marshal hook returns for the field.
HookOutput == HookMarshal(HookedFieldType, HookedFieldValue).bytes

\* The TLV emitted for the field: the one child of the SEQUENCE and, under
\* EXPLICIT tagging, the one child of the wrapper.
EmittedChild == DecodeTLV(DecodeTLV(wire.bytes).obj.value)

EmittedTLV ==
    IF FieldInfoOf(schema.fields[1]).info.Explicit /\ ~EmittedChild.err
    THEN DecodeTLV(EmittedChild.obj.value)
    ELSE EmittedChild

\* The octets unmarshalValue hands to the unmarshal hook of the field.
HookInput ==
    LET asn1Value == DecodeTLV(wire.bytes)
        top == TopLevelObject(asn1Value,
                              ParseElements(asn1Value.obj.value, 0,
                                            NewStructured(asn1Value.obj.tag)))
    IN  IF top.err \/ top.obj.kind # "Structured" \/ Len(top.obj.elements) # 1 THEN Fail
        ELSE IF ~FieldTakesElement(top.obj.elements, 0, FieldInfoOf(schema.fields[1]), DefaultOptions)
        THEN Fail
        ELSE LET element == ElementFor(top.obj.elements[1],
                                       FieldInfoOf(schema.fields[1]).info, DefaultOptions)
             IN  IF element.kind = "Panic" THEN Fail ELSE extractRawBytes(element)

\* C11: for a field whose type carries the hooks, under every descriptor
\* type and every combination of IMPLICIT tagging, EXPLICIT tagging and
\* OPTIONAL, Marshal emits a TLV whose value octets are the octets the marshal
\* hook returned, and Unmarshal hands exactly those octets to the unmarshal
\* hook.
C11_HookOctetsUnchanged ==
    /\ pc = "m.marshalled" =>
          /\ ~wire.err
          /\ ~EmittedTLV.err
          /\ EmittedTLV.obj.value = HookOutput
    /\ pc = "m.unmarshalled" =>
          /\ ~HookInput.err
          /\ HookInput.bytes = HookOutput

-----------------------------------------------------------------------------
(* omitempty.                                                              *)

\* Whether field i carries omitempty and holds the zero value of its type.
FieldIsEmpty(i) ==
    /\ FieldInfoOf(schema.fields[i]).info.Omitempty
    /\ record[i] = ZeroValue(schema.fields[i].type)

\* C12: a field whose descriptor contains omitempty and whose value is the
\* zero value of its type contributes no octets: the record marshals to what
\* the record without that field marshals to.
C12_OmitemptyZeroIsAbsent ==
    \A i \in 1..(IF pc = "m.start" THEN 0 ELSE FieldCount) :
        FieldIsEmpty(i) =>
            /\ ~wire.err
            /\ wire = Marshal(RemoveAt(record, i),
                              [schema EXCEPT !.fields = RemoveAt(@, i)])

-----------------------------------------------------------------------------
(* The layout of a marshalled record.                                      *)

\* Whether field i is included: not skipped, not a nil optional and not an
\* omitempty field that holds the zero value of its type.
FieldIncluded(i) ==
    /\ schema.fields[i].ann.raw # "skip"
    /\ ~FieldIsNil(i)
    /\ ~FieldIsEmpty(i)

\* The typed value node a hand-built SEQUENCE holds for field i.
FieldNode(i) ==
    LET x == IF FieldIsPointer(i) THEN record[i][1] ELSE record[i]
        asn1Type == FieldInfoOf(schema.fields[i]).info.Type
    IN  CASE asn1Type = "integer" -> NewInteger(x)
          [] asn1Type = "utf8string" -> NewUTF8String(x)
          [] asn1Type = "boolean" -> NewBoolean(x)
          [] asn1Type = "octetstring" -> NewOctetString(x)

\* The TLV of field i: that of its node, under the context tag of the field
\* if it has one.
FieldTLV(i) ==
    LET info == FieldInfoOf(schema.fields[i]).info
        plain == ObjEncode(FieldNode(i)).bytes
    IN  IF ~info.HasTag THEN plain
        ELSE IF info.Explicit
        THEN EncodeTLV(NewContextSpecificTag(info.Tag, TRUE), plain).bytes
        ELSE EncodeTLV(NewContextSpecificTag(info.Tag, FALSE),
                       DecodeTLV(plain).obj.value).bytes

RECURSIVE FieldTLVs(_)
\* The TLVs of the included fields i.. in declaration order, concatenated.
FieldTLVs(i) ==
    IF i > FieldCount THEN <<>>
    ELSE (IF FieldIncluded(i) THEN FieldTLV(i) ELSE <<>>) \o FieldTLVs(i + 1)

RECURSIVE HandBuilt(_, _)
\* The SEQUENCE built by hand: seq with the nodes of the included fields i..
\* added in declaration order.
HandBuilt(i, seq) ==
    IF i > FieldCount THEN seq
    ELSE HandBuilt(i + 1, IF FieldIncluded(i) THEN StructuredAdd(seq, FieldNode(i))
                          ELSE seq)

\* The number of TLVs in the content of the marshalled record.
ChildCount == Len(ParseElements(DecodeTLV(wire.bytes).obj.value, 0, NewSequence).structured.elements)

NoContextTags == \A i \in 1..FieldCount : ~FieldInfoOf(schema.fields[i]).info.HasTag

\* C13: Marshal of a record emits a universal constructed SEQUENCE (0x30)
\* whose content is the concatenation, in declaration order, of exactly one
\* TLV per included field; for a record without context tags the octets are
\* those of the SEQUENCE built by hand from the typed value nodes in the same
\* order.
C13_SequenceLayout ==
    pc = "m.marshalled" =>
        /\ ~wire.err
        /\ wire.bytes[1] = 48
        /\ wire.bytes = EncodeTLV(NewUniversalTag(TagSequence, TRUE), FieldTLVs(1)).bytes
        /\ ChildCount = Cardinality({i \in 1..FieldCount : FieldIncluded(i)})
        /\ NoContextTags => wire.bytes = ObjEncode(HandBuilt(1, NewSequence)).bytes

-----------------------------------------------------------------------------
(* Required fields and the cursor of unmarshalStruct.                      *)

\* The field loop taken one turn at a time ends where unmarshalStruct ends.
StepwiseAgrees ==
    pc = "r.done" => target = Unmarshal(wire.bytes, ZeroValue(schema), schema)

\* A pointer field that is not optional is nil.
RequiredPointerNil ==
    \E i \in 1..FieldCount : FieldIsPointer(i) /\ ~FieldIsOptional(i) /\ record[i] = <<>>

\* The field in turn is not optional and no child is left for it.
RequiredFieldUnfilled ==
    /\ structField <= FieldCount
    /\ ~FieldIsOptional(structField)
    /\ structCursor >= Len(structElements)

\* The steps of C14: Marshal of a record with a nil required pointer, and
\* the turn of a required field after the last child.
MissingRequiredFails ==
    /\ pc = "m.start" /\ RequiredPointerNil => wire'.err /\ wire'.bytes = <<>>
    /\ pc = "r.fields" /\ RequiredFieldUnfilled => target'.err /\ pc' = "r.done"

\* C14: Marshal fails when a pointer field that is not optional is nil, and
\* Unmarshal fails when the children of the SEQUENCE are exhausted while a
\* field that is not optional is still unfilled; neither returns success.
C14_MissingRequiredFails == [][MissingRequiredFails]_vars

\* Unmarshal has failed at a required field with no child left for it, after
\* an earlier field took the only child.
C14_Witness ==
    /\ pc = "r.done"
    /\ target.err
    /\ RequiredFieldUnfilled
    /\ structField = 2
    /\ structCursor = 1

\* The child under the cursor carries the context tag of the field in turn.
ChildMatches ==
    /\ ObjTag(structElements[structCursor + 1]).Class = ClassContext
    /\ ObjTag(structElements[structCursor + 1]).Number =
          FieldInfoOf(schema.fields[structField]).info.Tag

\* The turn of a field with a context tag while a child is left.
TaggedFieldTurn ==
    /\ pc = "r.fields"
    /\ structField <= FieldCount
    /\ FieldInfoOf(schema.fields[structField]).info.HasTag
    /\ structCursor < Len(structElements)

CursorFollowsTags ==
    TaggedFieldTurn =>
        /\ ChildMatches => structCursor' = structCursor + 1
        /\ ~ChildMatches /\ FieldIsOptional(structField) =>
              /\ ~target'.err
              /\ target'.v[structField] = <<>>
              /\ structCursor' = structCursor
              /\ structField' = structField + 1
              /\ pc' = "r.fields"
        /\ ~ChildMatches /\ ~FieldIsOptional(structField) =>
              /\ target'.err
              /\ pc' = "r.done"

\* C15: in the field loop of Unmarshal, for a field with a context tag and
\* the child under the cursor: a child carrying that tag is consumed and the
\* cursor moves by one; on another tag an optional field stays nil and the
\* cursor stays, so the next field is offered the same child; on another tag
\* a required field makes Unmarshal fail.
C15_CursorFollowsTags == [][CursorFollowsTags]_vars

\* An optional field [0] was offered the child [1] and left nil, and the
\* next field, tagged [1], has taken that child.
C15_Witness ==
    /\ pc = "r.fields"
    /\ structField = 3
    /\ structCursor = 1
    /\ FieldIsOptional(1)
    /\ target.v[1] = <<>>
    /\ FieldInfoOf(schema.fields[2]).info.HasTag
    /\ target.v[2] # ZeroValue(schema.fields[2].type)
    /\ ObjTag(structElements[1]).Number = 1

-----------------------------------------------------------------------------
(* CHOICE records.                                                         *)

\* C16: a record whose choice field holds a CHOICE record with exactly one
\* alternative set marshals, and unmarshalling the octets into a fresh record
\* of the same type succeeds with that one alternative set to the original
\* value and every other alternative nil.
C16_ChoiceRoundTrip ==
    /\ pc = "m.marshalled" => ~wire.err
    /\ pc = "m.unmarshalled" => ~target.err /\ target.v = record

-----------------------------------------------------------------------------
(* ASN1Choice.                                                             *)

\* The encoding of each value a choice is given, octet by octet as X.690
\* lays it down: identifier octet, length octet, content.
InnerOctets(value) ==
    CASE value.kind = "Boolean" -> <<1, 1, IF value.value THEN 255 ELSE 0>>
      [] value.kind = "Integer" ->
            (CASE value.value = 0 -> <<2, 1, 0>>
               [] value.value = 42 -> <<2, 1, 42>>
               [] value.value = 128 -> <<2, 2, 0, 128>>
               [] value.value = -1 -> <<2, 1, 255>>)
      [] value.kind = "UTF8String" -> <<12, Len(value.value)>> \o value.value
      [] value.kind = "OctetString" -> <<4, Len(value.value)>> \o value.value
      [] value.kind = "UTCTime" ->
            <<23, 13, 50, 51, 49, 50, 50, 53, 49, 48, 51, 48, 52, 53, 90>>
      [] value.kind = "GeneralizedTime" ->
            <<24, 15, 50, 48, 50, 51, 49, 50, 50, 53, 49, 48, 51, 48, 52, 53, 90>>
      [] value.kind = "Structured" -> <<48, 3, 2, 1, value.elements[1].value>>

\* The universal tag number of each value a choice is given.
InnerNumber(value) ==
    CASE value.kind = "Boolean" -> 1
      [] value.kind = "Integer" -> 2
      [] value.kind = "OctetString" -> 4
      [] value.kind = "UTF8String" -> 12
      [] value.kind = "Structured" -> 16
      [] value.kind = "UTCTime" -> 23
      [] value.kind = "GeneralizedTime" -> 24

\* C17: whatever constructions and SetValue calls came before, Encode of an
\* ASN1Choice that holds a value returns the octets Encode of that value
\* returns, which are the octets of the value's own type with no octet added
\* for the choice, and Tag returns the tag of that value; the identifier
\* plays no part in either.
C17_ChoiceIsItsValue ==
    choiceOut # None /\ choice.value # Nil =>
        /\ ~choiceOut.encoded.err
        /\ choiceOut.encoded.bytes = InnerOctets(choice.value)
        /\ choiceOut.encoded = ObjEncode(choice.value)
        /\ choiceOut.tag = [Class |-> 0,
                            Constructed |-> choice.value.kind = "Structured",
                            Number |-> InnerNumber(choice.value)]
        /\ choiceOut.tag = ObjTag(choice.value)
        /\ \A choiceID \in ChoiceIDs :
              /\ ChoiceEncode(SetChoiceID(choice, choiceID)) = choiceOut.encoded
              /\ ChoiceTag(SetChoiceID(choice, choiceID)) = choiceOut.tag

\* Encode and Tag have been called on a choice that carries an identifier
\* and holds a SEQUENCE.
C17_Witness ==
    /\ choiceOut # None
    /\ choice.choiceID = "integer_choice"
    /\ choice.value.kind = "Structured"
    /\ choiceOut.encoded.bytes = <<48, 3, 2, 1, 42>>

-----------------------------------------------------------------------------------------------------------------------------------------------------
(* Nesting depth.                                                          *)

\* The limit on the depth of the decoder's recursion.
DepthLimit == 64

\* C18: the decoder bounds its recursion: on an input nested more deeply
\* than the limit, Unmarshal stops with an error where the limit is reached
\* and opens no further call.
C18_DepthIsBounded ==
    pc \in {"n.converting", "n.converted"} /\ nesting > DepthLimit =>
        depth <= DepthLimit

-----------------------------------------------------------------------------
(* Content that breaks the invariant of its type.                          *)

\* The value octets of the TLV handed in, past the SEQUENCE around it if
\* there is one.
ContentItem ==
    LET outer == DecodeTLV(data).obj
    IN  IF outer.tag.Constructed THEN DecodeTLV(outer.value).obj ELSE outer

IsDigits(str) == \A i \in 1..Len(str) : str[i] >= 48 /\ str[i] <= 57

\* YYMMDDHHMMSSZ and YYYYMMDDHHMMSSZ
WellFormedTime(str, digits) ==
    /\ Len(str) = digits + 1
    /\ IsDigits(SubSeq(str, 1, digits))
    /\ str[digits + 1] = 90

\* The content breaks the invariant of the type its tag names.
ContentBroken ==
    LET item == ContentItem
    IN  CASE item.tag.Number = TagUTF8String -> ~ValidString(item.value)
          [] item.tag.Number = TagPrintableString -> ~isPrintableString(item.value)
          [] item.tag.Number = TagIA5String -> ~isIA5String(item.value)
          [] item.tag.Number = TagUTCTime -> ~WellFormedTime(item.value, 12)
          [] item.tag.Number = TagGeneralizedTime -> ~WellFormedTime(item.value, 14)

\* C19: Unmarshal and the typed Decode functions never panic, and content
\* that breaks the invariant of its type (invalid UTF-8, a character outside
\* the PrintableString alphabet, an octet above 0x7F in an IA5String, a
\* malformed time literal) makes them return an error.
C19_BrokenContentIsAnError ==
    /\ pc = "t.decoded" =>
          /\ ~decoded.panic
          /\ ContentBroken => decoded.err
    /\ pc = "t.unmarshalled" =>
          /\ ~target.panic
          /\ ContentBroken => target.err

-----------------------------------------------------------------------------
(* An INTEGER that does not fit the field it is fed into.                  *)

\* The INTEGER handed in, past the SEQUENCE around it if there is one.
IntegerSent ==
    LET outer == DecodeTLV(data).obj
    IN  IF outer.tag.Constructed
        THEN DecodeIntegerValue(DecodeTLV(outer.value).obj.value).value
        ELSE DecodeIntegerValue(outer.value).value

\* The integer type of the target, and the integer it holds afterwards.
IntegerTarget == IF schema.k = "struct" THEN schema.fields[1].type ELSE schema

IntegerStored == IF schema.k = "struct" THEN target.v[1] ELSE target.v

\* The range of an integer type.  Every integer of the model lies within
\* the range of the signed types of 32 and 64 bits, and is below the upper
\* end of the unsigned ones.
FitsIn(x, T) ==
    IF T.bits >= 32 THEN T.k = "int" \/ x >= 0
    ELSE IF T.k = "int"
    THEN -Power(2, T.bits - 1) <= x /\ x < Power(2, T.bits - 1)
    ELSE 0 <= x /\ x < Power(2, T.bits)

\* C20: an INTEGER that does not fit the range of the integer field it is
\* unmarshalled into makes Unmarshal fail; no truncated or wrapped value is
\* stored: what a successful call stores is the INTEGER itself.
C20_OverflowIsAnError ==
    pc = "w.unmarshalled" =>
        /\ ~FitsIn(IntegerSent, IntegerTarget) => target.err
        /\ ~target.err => IntegerStored = IntegerSent

-----------------------------------------------------------------------------
(* The invariant of BIT STRING nodes.                                      *)

\* unusedBits is in 0..7, and above 0 only with a data octet.
BitStringInvariant(obj) ==
    /\ obj.unusedBits \in 0..7
    /\ obj.unusedBits > 0 => Len(obj.value) >= 1

\* C21: every BitString node, constructed or decoded, has unusedBits in
\* 0..7 and a data octet when unusedBits > 0; the encoding of a constructed
\* node is accepted by DecodeBitString and decodes to the same data octets
\* and unusedBits.
C21_BitStringInvariant ==
    /\ pc \in {"b.built", "b.encoded", "b.decoded"} /\ node # None =>
          BitStringInvariant(node)
    /\ pc = "b.decoded" /\ ~decoded.err => BitStringInvariant(decoded.obj)
    /\ pc = "b.decoded" /\ node # None =>
          /\ ~decoded.err
          /\ decoded.obj.value = node.value
          /\ decoded.obj.unusedBits = node.unusedBits

-----------------------------------------------------------------------------
(* The round trip of UTCTime.                                              *)

\* The value octets of the encoded UTCTime.
UTCLiteralSent == DecodeTLV(data.bytes).obj.value

\* The two digits YY of the literal.
UTCLiteralYY == (UTCLiteralSent[1] - 48) * 10 + (UTCLiteralSent[2] - 48)

\* C22: Encode of a UTCTime node emits the 13-octet literal YYMMDDHHMMSSZ,
\* and DecodeUTCTime of the encoding restores the instant of the node, the
\* year being 19YY when YY >= 50 and 20YY otherwise.
C22_UTCTimeRoundTrip ==
    pc = "u.decoded" =>
        /\ Len(UTCLiteralSent) = 13
        /\ IsDigits(SubSeq(UTCLiteralSent, 1, 12))
        /\ UTCLiteralSent[13] = 90
        /\ ~decoded.err
        /\ CivilFromDays(decoded.obj.time.days).year =
              IF UTCLiteralYY >= 50 THEN 1900 + UTCLiteralYY ELSE 2000 + UTCLiteralYY
        /\ decoded.obj.time = node.time

-----------------------------------------------------------------------------
(* The order of the children of a container.                               *)

\* The TLV encodings of the children of the container, in insertion order.
ChildEncodings == [i \in 1..Len(node.elements) |-> ObjEncode(node.elements[i]).bytes]

\* C23: Encode of a container emits its tag and length, then the TLV
\* encodings of its children in insertion order; decoding the octets
\* materializes as many children, in the same order.
C23_ChildrenInOrder ==
    /\ pc \in {"s.encoded", "s.decoded", "s.converted"} =>
          /\ ~data.err
          /\ data = EncodeTLV(node.tag, Flatten(ChildEncodings))
    /\ pc = "s.decoded" =>
          /\ ~buffer.err
          /\ Len(buffer.objects) = Len(node.elements)
          /\ \A i \in 1..Len(node.elements) :
                ValueEncode(buffer.objects[i]).bytes = ChildEncodings[i]
    /\ pc = "s.converted" =>
          /\ decoded.kind = "Structured"
          /\ Len(decoded.elements) = Len(node.elements)
          /\ \A i \in 1..Len(node.elements) :
                ObjTag(decoded.elements[i]) = ObjTag(node.elements[i])

-----------------------------------------------------------------------------
(* Copy semantics.                                                         *)

\* What a node built over the given octets encodes, alone and in its
\* container.
GivenEncoding ==
    IF node.elements = 0 THEN EncodeTLV(node.tag, buffer.given)
    ELSE EncodeTLV(NewUniversalTag(TagSequence, TRUE),
                   EncodeTLV(node.tag, buffer.given).bytes)

\* C24: whatever the caller has written to its own buffer, to the octets
\* Value() returned or to the list Elements() returned, the node and its
\* container encode the octets the constructor was given.
C24_WritesOutsideLeaveTheNode == pc = "h.encoded" => data = GivenEncoding

\* An encoding taken in a container after the caller's buffer, a slice
\* Value() returned and a list Elements() returned were all written to.
C24_Witness ==
    /\ pc = "h.encoded"
    /\ node.elements # 0
    /\ buffer.bytes[1] # buffer.given
    /\ \E a \in buffer.held \ {1} : buffer.bytes[a] # buffer.given
    /\ \E a \in buffer.heldLists : buffer.lists[a] # buffer.lists[node.elements]
    /\ data = GivenEncoding

-----------------------------------------------------------------------------
(* Concurrent calls.                                                       *)

\* What the call returns when it runs alone.
Alone(c) ==
    CASE c.op = "Marshal" -> Marshal(c.v, c.T)
      [] c.op = "Unmarshal" -> Unmarshal(c.d, c.v, c.T)
      [] c.op = "MarshalWithOptions" ->
            MarshalWithOptions(c.v, c.T, MarshalOptions(c.given))
      [] c.op = "UnmarshalWithOptions" ->
            UnmarshalWithOptions(c.d, c.v, c.T, MarshalOptions(c.given))
      [] c.op = "Encode" -> ObjEncode(c.obj)
      [] c.op = "Decode" -> Decode(c.d)

\* The options object the call is to work with.
OptionsOf(c) ==
    IF c.op \in {"Marshal", "Unmarshal"} THEN DefaultOptions ELSE MarshalOptions(c.given)

\* C25: under every interleaving of the steps of concurrent Marshal,
\* Unmarshal, Encode and Decode calls, a call returns what it returns alone,
\* and the options object a call reads is its own: the object of no other
\* call, and as it was made for this call.
C25_CallsDoNotInterfere ==
    /\ \A i \in 1..MaxCalls :
          calls[i].pos = "done" => calls[i].result = Alone(calls[i])
    /\ \A i \in 1..MaxCalls :
          calls[i].opts # 0 =>
             /\ buffer[calls[i].opts] = OptionsOf(calls[i])
             /\ \A j \in 1..MaxCalls \ {i} : calls[j].opts # calls[i].opts

\* A Marshal and a MarshalWithOptions without context tags, of the same
\* record, overlapped, and each returned what it returns alone: the one the
\* field under its context tag, the other the field under its universal tag.
C25_Witness ==
    \E i, j \in 1..MaxCalls :
       /\ calls[i].op = "Marshal" /\ calls[j].op = "MarshalWithOptions"
       /\ calls[i].pos = "done" /\ calls[j].pos = "done"
       /\ calls[i].met /\ calls[j].met
       /\ calls[i].result.bytes = <<48, 6, 2, 1, 5, 128, 1, 255>>
       /\ calls[j].result.bytes = <<48, 6, 2, 1, 5, 1, 1, 255>>

-----------------------------------------------------------------------------
(* Explicit fields.                                                        *)

\* The child of the SEQUENCE received, as DecodeTLV sees it.
ExplicitChild == DecodeTLV(DecodeTLV(wire.bytes).obj.value).obj

\* The inner elements of the child.
ExplicitInner == DecodeAll(ExplicitChild.value)

\* The child is constructed and holds exactly one inner element.
WellWrapped ==
    /\ ExplicitChild.tag.Constructed
    /\ ~ExplicitInner.err
    /\ Len(ExplicitInner.objects) = 1

\* The inner element fed to the field.
InnerFed ==
    unmarshalValue(convertToHighLevelObject(ExplicitInner.objects[1]),
                   ZeroValue(schema.fields[1].type), schema.fields[1].type, DefaultOptions)

\* C26: a child that matches the tag of an explicit field is constructed
\* around exactly one inner element, which is what the field is fed; a
\* matching child that is primitive, empty or holds more than one inner
\* element is an error.
C26_ExplicitUnwrapsOnce ==
    pc = "x.done" /\ ExplicitChild.tag = NewContextSpecificTag(0, ExplicitChild.tag.Constructed) =>
       IF WellWrapped
       THEN /\ target.err = InnerFed.err
            /\ ~target.err => target.v = <<InnerFed.v>>
       ELSE target.err

-----------------------------------------------------------------------------
(* Errors in nested content.                                               *)

RECURSIVE ContentParses(_)
RECURSIVE EveryContentParses(_, _)

\* The octets are a row of whole TLVs, and so is the content of every
\* constructed one among them, at every depth.
ContentParses(octets) == EveryContentParses(DecodeAll(octets), 1)

EveryContentParses(all, i) ==
    /\ ~all.err
    /\ i <= Len(all.objects) =>
          /\ all.objects[i].tag.Constructed => ContentParses(all.objects[i].value)
          /\ EveryContentParses(all, i + 1)

\* C27: when the content of a nested constructed element does not parse,
\* at whatever depth, Unmarshal returns an error.
C27_NoErrorSwallowed ==
    pc = "k.done" /\ ~ContentParses(DecodeTLV(wire.bytes).obj.value) => target.err

-----------------------------------------------------------------------------
(* Unsigned host integers.                                                 *)

\* The content octets of the INTEGER that Marshal emitted.
UintContent == DecodeTLV(data.bytes).obj.value

\* C28: Marshal of an unsigned host integer u emits an INTEGER whose content,
\* read as two's complement, is u and not a negative number, and Unmarshal
\* of it into the same type restores u.
C28_UnsignedRoundTrip ==
    /\ pc \in {"g.marshalled", "g.unmarshalled"} =>
          /\ ~data.err
          /\ UintContent[1] < 128
          /\ Strip(UintContent) = Strip(buffer)
    /\ pc = "g.unmarshalled" => ~decoded.err /\ decoded.v = buffer

-----------------------------------------------------------------------------
(* Descriptors.                                                            *)

\* C29: a descriptor that parseASN1Tag returns without error has a tag
\* number whenever it is explicit.
C29_ExplicitHasTag ==
    pc = "p.done" /\ ~target.err => (target.info.Explicit => target.info.HasTag)

-----------------------------------------------------------------------------
(* Termination of the decoding loops.                                      *)

RECURSIVE SumOf(_)
SumOf(sizes) == IF sizes = <<>> THEN 0 ELSE Head(sizes) + SumOf(Tail(sizes))

\* Every iteration of the loop consumed at least one octet, and the
\* iterations together no more than the content holds.
FrameSound(f) ==
    /\ \A i \in 1..Len(f.sizes) : f.sizes[i] >= 1
    /\ f.offset = SumOf(f.sizes)
    /\ f.offset <= Len(f.content)

\* The loops are sound, their iterations are no more than the octets of
\* the input, and a DecodeAll that returned no error consumed all of it.
LoopsSound ==
    /\ \A k \in 1..Len(buffer.frames) : FrameSound(buffer.frames[k])
    /\ buffer.turns <= Len(buffer.frames[1].content)
    /\ pc = "a.done" /\ buffer.mode = "DecodeAll" /\ ~buffer.failed =>
          SumOf(buffer.frames[1].sizes) = Len(buffer.frames[1].content)

\* C30: every iteration of DecodeAll and of the decoding of nested children
\* fails or consumes at least one octet and no more than remain, the loops
\* come to an end, and DecodeAll returns an error or values whose consumed
\* lengths sum to the length of the input.
C30_DecodingTerminates == []LoopsSound /\ <>(pc = "a.done")

\* DecodeAll has returned two values, of three and of two octets, from an
\* input of the greatest length, which it consumed whole.
C30_Witness ==
    /\ pc = "a.done"
    /\ ~buffer.failed
    /\ buffer.mode = "DecodeAll"
    /\ Len(buffer.frames[1].sizes) = 2
    /\ buffer.frames[1].sizes[1] = 3
    /\ SumOf(buffer.frames[1].sizes) = MaxInputLen

====
